---------------------------- MODULE Spec2Model ----------------------------
(***************************************************************************)
(* Model of the `update` command of secret-env-manager (sem): the env-file *)
(* line parser, the secret-URI parser, the per-backend secret and client   *)
(* caches, the entry resolution engine and the cache-file writer.          *)
(*                                                                         *)
(* Strings are sequences of one-character strings, so that the parsers     *)
(* and formatters of the program are computed character by character.      *)
(***************************************************************************)
EXTENDS Integers, Sequences, FiniteSets, TLC

(***************************************************************************)
(* Bounds of the model.                                                    *)
(***************************************************************************)
MaxLines == 2

(***************************************************************************)
(* Generic string helpers (Go's strings package).                          *)
(***************************************************************************)
EmptyStr == <<>>

\* Go's unicode.IsSpace / unicode.IsControl restricted to the modelled alphabet.
WhiteSpace == {" ", "\t", "\n", "\r"}

ControlChars == {"\t", "\n", "\r"}

Digits == {"0", "1", "2", "3", "4", "5", "6", "7", "8", "9"}

\* strings.HasPrefix
HasPrefix(s, p) == Len(s) >= Len(p) /\ SubSeq(s, 1, Len(p)) = p

\* strings.HasSuffix
HasSuffix(s, p) == Len(s) >= Len(p) /\ SubSeq(s, Len(s) - Len(p) + 1, Len(s)) = p

\* strings.Index for a one-character separator: 0 when absent, else 1-based.
IndexOf(s, c) ==
    IF \E i \in 1..Len(s) : s[i] = c
    THEN CHOOSE i \in 1..Len(s) : s[i] = c /\ \A j \in 1..(i - 1) : s[j] # c
    ELSE 0

\* strings.Contains for a one-character needle.
Contains(s, c) == IndexOf(s, c) # 0

\* strings.Cut for a one-character separator.
Cut(s, c) ==
    LET i == IndexOf(s, c) IN
    IF i = 0 THEN [before |-> s, after |-> EmptyStr, found |-> FALSE]
    ELSE [before |-> SubSeq(s, 1, i - 1), after |-> SubSeq(s, i + 1, Len(s)), found |-> TRUE]

\* strings.TrimLeft(s, cutset)
RECURSIVE TrimLeft(_, _)
TrimLeft(s, cutset) ==
    IF s # EmptyStr /\ Head(s) \in cutset THEN TrimLeft(Tail(s), cutset) ELSE s

\* strings.TrimRight(s, cutset)
RECURSIVE TrimRight(_, _)
TrimRight(s, cutset) ==
    IF s # EmptyStr /\ s[Len(s)] \in cutset
    THEN TrimRight(SubSeq(s, 1, Len(s) - 1), cutset)
    ELSE s

\* strings.Trim(s, cutset)
Trim(s, cutset) == TrimRight(TrimLeft(s, cutset), cutset)

\* strings.TrimSpace
TrimSpace(s) == Trim(s, WhiteSpace)

\* strings.Split for a one-character separator.
RECURSIVE Split(_, _)
Split(s, c) ==
    LET r == Cut(s, c) IN
    IF r.found THEN <<r.before>> \o Split(r.after, c) ELSE <<s>>

\* strings.SplitN(s, sep, n) for n >= 1.
RECURSIVE SplitN(_, _, _)
SplitN(s, c, n) ==
    LET r == Cut(s, c) IN
    IF n > 1 /\ r.found THEN <<r.before>> \o SplitN(r.after, c, n - 1) ELSE <<s>>

\* strings.Join
RECURSIVE Join(_, _)
Join(parts, sep) ==
    IF parts = <<>> THEN EmptyStr
    ELSE IF Len(parts) = 1 THEN parts[1]
    ELSE parts[1] \o sep \o Join(Tail(parts), sep)

(***************************************************************************)
(* internal/functional: Result values.                                     *)
(***************************************************************************)
Success(v) == [ok |-> TRUE, v |-> v]

\* An error is the sequence of the message parts, outermost wrapper first.
Failure(err) == [ok |-> FALSE, err |-> err]

(***************************************************************************)
(* internal/model/uri: the secret URI parser.                              *)
(***************************************************************************)
URIPrefix == <<"s", "e", "m", ":", "/", "/">>

AwsPlatform == <<"a", "w", "s">>

GoogleCloudPlatform == <<"g", "o", "o", "g", "l", "e", "c", "l", "o", "u", "d">>

AwsDefaultRegion ==
    <<"a", "p", "-", "n", "o", "r", "t", "h", "e", "a", "s", "t", "-", "1">>

AwsDefaultVersion == <<"A", "W", "S", "C", "U", "R", "R", "E", "N", "T">>

GoogleCloudDefaultVersion == <<"l", "a", "t", "e", "s", "t">>

cleanURI(uri) == TrimRight(TrimSpace(uri), {"\r", "\n"})

validatePrefix(uri) ==
    IF ~HasPrefix(uri, URIPrefix)
    THEN Failure(<<"invalid URI: must start with 'sem://'">>)
    ELSE Success(SubSeq(uri, Len(URIPrefix) + 1, Len(uri)))

splitPathAndQuery(trimmedURI) ==
    LET r == Cut(trimmedURI, "?") IN [path |-> r.before, query |-> r.after]

\* A variant of parsePathComponents that only looks at the platform and the
\* service and takes a missing secret name for an empty one.
parsePathComponentsLenient(path) ==
    LET parts == SplitN(path, "/", 3) IN
    IF Len(parts) < 2
    THEN Failure(<<"invalid URI path: expected '<Platform>:<Service>/<Account>/<SecretName>'">>)
    ELSE LET c == Cut(parts[1], ":") IN
         IF ~c.found \/ c.before = EmptyStr \/ c.after = EmptyStr
         THEN Failure(<<"invalid URI: missing required fields">>)
         ELSE Success([Platform |-> c.before, Service |-> c.after,
                       Account |-> parts[2],
                       SecretName |-> IF Len(parts) = 3 THEN parts[3] ELSE EmptyStr])

parsePathComponents(path) ==
    LET parts == SplitN(path, "/", 3) IN
    IF Len(parts) # 3
    THEN Failure(<<"invalid URI path: expected '<Platform>:<Service>/<Account>/<SecretName>'">>)
    ELSE LET c == Cut(parts[1], ":") IN
         IF ~c.found \/ c.before = EmptyStr \/ c.after = EmptyStr
            \/ parts[2] = EmptyStr \/ parts[3] = EmptyStr
         THEN Failure(<<"invalid URI: missing required fields">>)
         ELSE Success([Platform |-> c.before, Service |-> c.after,
                       Account |-> parts[2], SecretName |-> parts[3]])

\* net/url.QueryUnescape on the modelled alphabet: '+' is a space and a '%'
\* must start a two-digit hexadecimal escape; the escapes of the alphabet
\* are %2E ('.') and %2F ('/').
RECURSIVE QueryUnescape(_)
QueryUnescape(s) ==
    IF s = EmptyStr THEN Success(EmptyStr)
    ELSE IF Head(s) = "%"
    THEN IF Len(s) >= 3 /\ s[2] = "2" /\ s[3] \in {"E", "F"}
         THEN LET rest == QueryUnescape(SubSeq(s, 4, Len(s))) IN
              IF rest.ok
              THEN Success(<<IF s[3] = "E" THEN "." ELSE "/">> \o rest.v)
              ELSE rest
         ELSE Failure(<<"invalid URL escape">>)
    ELSE LET rest == QueryUnescape(Tail(s)) IN
         IF rest.ok
         THEN Success(<<IF Head(s) = "+" THEN " " ELSE Head(s)>> \o rest.v)
         ELSE rest

\* net/url.ParseQuery: the pairs <<key, value>> in order of appearance, and
\* whether any piece was malformed (ParseQuery reports the first error).
RECURSIVE ParseQueryPieces(_)
ParseQueryPieces(pieces) ==
    IF pieces = <<>> THEN [pairs |-> <<>>, bad |-> FALSE]
    ELSE LET rest == ParseQueryPieces(Tail(pieces))
             p == Head(pieces)
             kv == Cut(p, "=")
             k == QueryUnescape(kv.before)
             v == QueryUnescape(kv.after)
         IN IF Contains(p, ";") THEN [rest EXCEPT !.bad = TRUE]
            ELSE IF p = EmptyStr THEN rest
            ELSE IF ~k.ok \/ ~v.ok THEN [rest EXCEPT !.bad = TRUE]
            ELSE [rest EXCEPT !.pairs = <<(<<k.v, v.v>>)>> \o @]

ParseQuery(query) == ParseQueryPieces(Split(query, "&"))

\* url.Values.Get: the first value of the key, or "".
QueryGet(pairs, key) ==
    IF \E i \in 1..Len(pairs) : pairs[i][1] = key
    THEN pairs[CHOOSE i \in 1..Len(pairs) :
                 pairs[i][1] = key /\ \A j \in 1..(i - 1) : pairs[j][1] # key][2]
    ELSE EmptyStr

parseQueryParams(query) ==
    IF query = EmptyStr
    THEN Success([Version |-> EmptyStr, Region |-> EmptyStr, Key |-> EmptyStr])
    ELSE LET q == ParseQuery(query) IN
         IF q.bad THEN Failure(<<"invalid query">>)
         ELSE Success([Version |-> QueryGet(q.pairs, <<"v", "e", "r", "s", "i", "o", "n">>),
                       Region |-> QueryGet(q.pairs, <<"r", "e", "g", "i", "o", "n">>),
                       Key |-> QueryGet(q.pairs, <<"k", "e", "y">>)])

determineVersion(platform, queryVersion) ==
    IF queryVersion # EmptyStr THEN queryVersion
    ELSE IF platform = AwsPlatform THEN AwsDefaultVersion
    ELSE IF platform = GoogleCloudPlatform THEN GoogleCloudDefaultVersion
    ELSE EmptyStr

\* A variant of determineRegion that gives every platform the default region.
determineRegionForAll(platform, queryRegion) ==
    IF queryRegion # EmptyStr THEN queryRegion ELSE AwsDefaultRegion

determineRegion(platform, queryRegion) ==
    IF queryRegion # EmptyStr THEN queryRegion
    ELSE IF platform = AwsPlatform THEN AwsDefaultRegion
    ELSE EmptyStr

createSecretURI(path, query) ==
    [Platform |-> path.Platform, Service |-> path.Service,
     Account |-> path.Account, SecretName |-> path.SecretName,
     Key |-> query.Key,
     Version |-> determineVersion(path.Platform, query.Version),
     Region |-> determineRegion(path.Platform, query.Region)]

splitAndProcess(trimmed) ==
    LET pq == splitPathAndQuery(trimmed)
        p == parsePathComponents(pq.path)
    IN IF ~p.ok THEN p
       ELSE LET q == parseQueryParams(pq.query) IN
            IF ~q.ok THEN q ELSE Success(createSecretURI(p.v, q.v))

\* uri.ParseResult
ParseResult(uriString) ==
    LET pre == validatePrefix(cleanURI(uriString)) IN
    IF ~pre.ok THEN pre ELSE splitAndProcess(pre.v)

\* uri.BuildCacheKey: the five parts joined with '|'.
BuildCacheKey(account, service, secretName, version, region) ==
    Join(<<account, service, secretName, version, region>>, <<"|">>)

(***************************************************************************)
(* Byte order of strings (Go's sort.Strings).                              *)
(***************************************************************************)
\* The modelled alphabet in ASCII order.
CharOrder ==
    <<"\t", "\n", "\r", " ", "\"", "#", "%", "'", "+", ",", "-", ".", "/",
      "0", "1", "2", "3", "4", "5", "6", "7", "8", "9", ":", ";", "=", "?",
      "A", "B", "C", "D", "E", "F", "G", "H", "I", "J", "K", "L", "M", "N",
      "O", "P", "Q", "R", "S", "T", "U", "V", "W", "X", "Y", "Z", "[", "]",
      "_", "a", "b", "c", "d", "e", "f", "g", "h", "i", "j", "k", "l", "m",
      "n", "o", "p", "q", "r", "s", "t", "u", "v", "w", "x", "y", "z", "{",
      "|", "}">>

Ord(c) == CHOOSE i \in 1..Len(CharOrder) : CharOrder[i] = c

\* a < b in byte order.
RECURSIVE LessStr(_, _)
LessStr(a, b) ==
    IF b = EmptyStr THEN FALSE
    ELSE IF a = EmptyStr THEN TRUE
    ELSE IF Head(a) = Head(b) THEN LessStr(Tail(a), Tail(b))
    ELSE Ord(Head(a)) < Ord(Head(b))

\* sort.Strings applied to the elements of a set of strings.
RECURSIVE SortStrings(_)
SortStrings(S) ==
    IF S = {} THEN <<>>
    ELSE LET m == CHOOSE x \in S : \A y \in S \ {x} : LessStr(x, y)
         IN <<m>> \o SortStrings(S \ {m})

(***************************************************************************)
(* encoding/json on the modelled subset of JSON: objects, arrays, strings  *)
(* without escapes, integers, true, false and null.                        *)
(***************************************************************************)
JStr(s) == [t |-> "str", s |-> s]

JNum(s) == [t |-> "num", s |-> s]

JBool(b) == [t |-> "bool", b |-> b]

JNull == [t |-> "null"]

JObj(m) == [t |-> "obj", m |-> m]

JArr(a) == [t |-> "arr", a |-> a]

JFail == [ok |-> FALSE]

JOk(v, n) == [ok |-> TRUE, v |-> v, n |-> n]

\* Index of the first character at or after i that is not JSON whitespace.
SkipWs(s, i) ==
    CHOOSE j \in i..(Len(s) + 1) :
        /\ j = Len(s) + 1 \/ s[j] \notin WhiteSpace
        /\ \A k \in i..(j - 1) : s[k] \in WhiteSpace

\* A string literal starting at the quote s[i].
JParseString(s, i) ==
    IF \E j \in (i + 1)..Len(s) : s[j] = "\""
    THEN LET j == CHOOSE j \in (i + 1)..Len(s) :
                      s[j] = "\"" /\ \A k \in (i + 1)..(j - 1) : s[k] # "\""
         IN IF \E k \in (i + 1)..(j - 1) : s[k] \in ControlChars
            THEN JFail
            ELSE JOk(SubSeq(s, i + 1, j - 1), j + 1)
    ELSE JFail

\* An integer literal starting at s[i]; a leading zero must stand alone.
JParseNumber(s, i) ==
    LET k == IF s[i] = "-" THEN i + 1 ELSE i
        e == CHOOSE j \in k..(Len(s) + 1) :
                 /\ j = Len(s) + 1 \/ s[j] \notin Digits
                 /\ \A x \in k..(j - 1) : s[x] \in Digits
    IN IF e = k \/ (e - k > 1 /\ s[k] = "0")
       THEN JFail
       ELSE JOk(JNum(SubSeq(s, i, e - 1)), e)

JTrue == <<"t", "r", "u", "e">>

JFalse == <<"f", "a", "l", "s", "e">>

JNullText == <<"n", "u", "l", "l">>

RECURSIVE JParseValue(_, _)
RECURSIVE JParseMembers(_, _, _)
RECURSIVE JParseElements(_, _, _)

\* The members of an object from the key expected at s[i]; later duplicate
\* keys overwrite earlier ones, as when decoding into a Go map.
JParseMembers(s, i, m) ==
    IF i > Len(s) \/ s[i] # "\"" THEN JFail
    ELSE LET k == JParseString(s, i) IN
         IF ~k.ok THEN JFail
         ELSE LET c == SkipWs(s, k.n) IN
              IF c > Len(s) \/ s[c] # ":" THEN JFail
              ELSE LET v == JParseValue(s, c + 1) IN
                   IF ~v.ok THEN JFail
                   ELSE LET d == SkipWs(s, v.n)
                            m2 == (k.v :> v.v) @@ m
                        IN IF d > Len(s) THEN JFail
                           ELSE IF s[d] = "}" THEN JOk(JObj(m2), d + 1)
                           ELSE IF s[d] = "," THEN JParseMembers(s, SkipWs(s, d + 1), m2)
                           ELSE JFail

\* The elements of an array from the value expected at s[i].
JParseElements(s, i, a) ==
    LET v == JParseValue(s, i) IN
    IF ~v.ok THEN JFail
    ELSE LET d == SkipWs(s, v.n)
             a2 == Append(a, v.v)
         IN IF d > Len(s) THEN JFail
            ELSE IF s[d] = "]" THEN JOk(JArr(a2), d + 1)
            ELSE IF s[d] = "," THEN JParseElements(s, d + 1, a2)
            ELSE JFail

JParseValue(s, i0) ==
    LET i == SkipWs(s, i0) IN
    IF i > Len(s) THEN JFail
    ELSE IF s[i] = "{"
    THEN LET j == SkipWs(s, i + 1) IN
         IF j <= Len(s) /\ s[j] = "}" THEN JOk(JObj(<<>>), j + 1)
         ELSE JParseMembers(s, j, <<>>)
    ELSE IF s[i] = "["
    THEN LET j == SkipWs(s, i + 1) IN
         IF j <= Len(s) /\ s[j] = "]" THEN JOk(JArr(<<>>), j + 1)
         ELSE JParseElements(s, j, <<>>)
    ELSE IF s[i] = "\"" THEN LET r == JParseString(s, i) IN
                              IF r.ok THEN JOk(JStr(r.v), r.n) ELSE JFail
    ELSE IF s[i] = "-" \/ s[i] \in Digits THEN JParseNumber(s, i)
    ELSE IF HasPrefix(SubSeq(s, i, Len(s)), JTrue) THEN JOk(JBool(TRUE), i + 4)
    ELSE IF HasPrefix(SubSeq(s, i, Len(s)), JFalse) THEN JOk(JBool(FALSE), i + 5)
    ELSE IF HasPrefix(SubSeq(s, i, Len(s)), JNullText) THEN JOk(JNull, i + 4)
    ELSE JFail

\* json.Unmarshal into interface{}: the whole text must be one value.
JsonUnmarshal(s) ==
    LET r == JParseValue(s, 1) IN
    IF r.ok /\ SkipWs(s, r.n) > Len(s) THEN Success(r.v)
    ELSE Failure(<<"invalid JSON format">>)

RECURSIVE JsonMarshal(_)
RECURSIVE MarshalMembers(_, _)
RECURSIVE MarshalElements(_)

MarshalMembers(m, keys) ==
    IF keys = <<>> THEN EmptyStr
    ELSE <<"\"">> \o Head(keys) \o <<"\"", ":">> \o JsonMarshal(m[Head(keys)])
         \o (IF Len(keys) > 1 THEN <<",">> ELSE EmptyStr)
         \o MarshalMembers(m, Tail(keys))

MarshalElements(a) ==
    IF a = <<>> THEN EmptyStr
    ELSE JsonMarshal(Head(a)) \o (IF Len(a) > 1 THEN <<",">> ELSE EmptyStr)
         \o MarshalElements(Tail(a))

\* json.Marshal: compact text, object members in sorted key order.
JsonMarshal(v) ==
    IF v.t = "str" THEN <<"\"">> \o v.s \o <<"\"">>
    ELSE IF v.t = "num" THEN v.s
    ELSE IF v.t = "bool" THEN (IF v.b THEN JTrue ELSE JFalse)
    ELSE IF v.t = "null" THEN JNullText
    ELSE IF v.t = "obj"
    THEN <<"{">> \o MarshalMembers(v.m, SortStrings(DOMAIN v.m)) \o <<"}">>
    ELSE <<"[">> \o MarshalElements(v.a) \o <<"]">>

(***************************************************************************)
(* internal/parser: the env-file line parser.                              *)
(***************************************************************************)
\* The UTF-8 byte-order mark, one element of the content.
BOM == "BOM"

removeBOM(b) == IF b # EmptyStr /\ Head(b) = BOM THEN Tail(b) ELSE b

\* CRLF and bare CR become LF.
RECURSIVE normalizeLineEndings(_)
normalizeLineEndings(b) ==
    IF b = EmptyStr THEN EmptyStr
    ELSE IF Head(b) = "\r"
    THEN IF Len(b) >= 2 /\ b[2] = "\n"
         THEN <<"\n">> \o normalizeLineEndings(SubSeq(b, 3, Len(b)))
         ELSE <<"\n">> \o normalizeLineEndings(Tail(b))
    ELSE <<Head(b)>> \o normalizeLineEndings(Tail(b))

PreprocessContent(content) == normalizeLineEndings(removeBOM(content))

\* bufio.Scanner with ScanLines: the text between line feeds, a trailing
\* carriage return dropped, no final empty line.
RECURSIVE ScanLines(_)
ScanLines(content) ==
    IF content = EmptyStr THEN <<>>
    ELSE LET r == Cut(content, "\n") IN
         <<TrimRight(r.before, {"\r"})>>
         \o (IF r.found THEN ScanLines(r.after) ELSE <<>>)

classifyLine(line) ==
    IF line = EmptyStr THEN "EmptyLine"
    ELSE IF HasPrefix(line, <<"#">>) THEN "CommentLine"
    ELSE IF HasPrefix(line, URIPrefix) THEN "SecretURILine"
    ELSE IF Contains(line, "=") THEN "KeyValueLine"
    ELSE "KeyOnlyLine"

NewEntry(index, key, value) == [Index |-> index, Key |-> key, Value |-> value]

\* env.Entry{}
ZeroEntry == NewEntry(0, EmptyStr, EmptyStr)

NewLine(content, number) ==
    LET trimmed == TrimSpace(content) IN
    [Content |-> content, Number |-> number,
     Type |-> classifyLine(trimmed), Trimmed |-> trimmed]

\* A variant of parseKeyValueLine that trims the value as it trims the key.
parseKeyValueLineTrimmingValue(line) ==
    LET eqIndex == IndexOf(line.Trimmed, "=") IN
    NewEntry(line.Number,
             TrimSpace(SubSeq(line.Trimmed, 1, eqIndex - 1)),
             TrimSpace(SubSeq(line.Trimmed, eqIndex + 1, Len(line.Trimmed))))

parseKeyValueLine(line) ==
    LET eqIndex == IndexOf(line.Trimmed, "=") IN
    NewEntry(line.Number,
             TrimSpace(SubSeq(line.Trimmed, 1, eqIndex - 1)),
             SubSeq(line.Trimmed, eqIndex + 1, Len(line.Trimmed)))

ToEnvEntry(l) ==
    IF l.Type \in {"EmptyLine", "CommentLine"} THEN ZeroEntry
    ELSE IF l.Type = "KeyValueLine" THEN parseKeyValueLine(l)
    ELSE NewEntry(l.Number, l.Trimmed, EmptyStr)

\* functional.Filter(entries, entry != Entry{})
FilterValidEntries(entries) == SelectSeq(entries, LAMBDA e : e # ZeroEntry)

\* ParsePlainFileContent: the entries of the non-blank, non-comment lines.
ParsePlainFileContent(content) ==
    LET lines == ScanLines(PreprocessContent(content)) IN
    FilterValidEntries([i \in 1..Len(lines) |-> ToEnvEntry(NewLine(lines[i], i))])

(***************************************************************************)
(* internal/text: control characters and the JSON path navigator.          *)
(***************************************************************************)
\* Every control or whitespace character except the plain space is removed.
CleanControlChars(s) ==
    SelectSeq(s, LAMBDA c : c = " " \/ (c \notin ControlChars /\ c \notin WhiteSpace))

ParseJSONResult(jsonString) == JsonUnmarshal(jsonString)

ParseJSONMapResult(jsonString) ==
    LET r == ParseJSONResult(jsonString) IN
    IF ~r.ok THEN r
    ELSE IF r.v.t = "obj" THEN Success(r.v.m)
    ELSE Failure(<<"JSON is not an object">>)

\* The value of a run of decimal digits.
RECURSIVE DigitsValue(_)
DigitsValue(d) ==
    IF d = EmptyStr THEN 0
    ELSE 10 * DigitsValue(SubSeq(d, 1, Len(d) - 1)) + (Ord(d[Len(d)]) - Ord("0"))

\* strconv.Atoi: an optional sign and at least one digit.
Atoi(s) ==
    LET signed == s # EmptyStr /\ Head(s) \in {"-", "+"}
        d == IF signed THEN Tail(s) ELSE s
    IN IF d = EmptyStr \/ \E i \in 1..Len(d) : d[i] \notin Digits
       THEN Failure(<<"invalid syntax">>)
       ELSE Success(IF signed /\ Head(s) = "-" THEN 0 - DigitsValue(d) ELSE DigitsValue(d))

\* A variant of parseIndex whose negative index cannot reach the first element.
parseIndexShort(index, arrayLength) ==
    IF HasPrefix(index, <<"-">>)
    THEN IF index = <<"-">> THEN Success(arrayLength - 1)
         ELSE LET val == Atoi(index) IN
              IF ~val.ok THEN Failure(<<"invalid array index">>)
              ELSE IF 0 - val.v < arrayLength THEN Success(arrayLength + val.v)
              ELSE Failure(<<"negative index out of bounds">>)
    ELSE LET val == Atoi(index) IN
         IF ~val.ok THEN Failure(<<"invalid array index">>)
         ELSE IF val.v >= arrayLength THEN Failure(<<"index out of bounds">>)
         ELSE Success(val.v)

\* The 0-based index a path segment names in an array of the given length.
parseIndex(index, arrayLength) ==
    IF HasPrefix(index, <<"-">>)
    THEN IF index = <<"-">> THEN Success(arrayLength - 1)
         ELSE LET val == Atoi(index) IN
              IF ~val.ok THEN Failure(<<"invalid array index">>)
              ELSE IF 0 - val.v <= arrayLength THEN Success(arrayLength + val.v)
              ELSE Failure(<<"negative index out of bounds">>)
    ELSE LET val == Atoi(index) IN
         IF ~val.ok THEN Failure(<<"invalid array index">>)
         ELSE IF val.v >= arrayLength THEN Failure(<<"index out of bounds">>)
         ELSE Success(val.v)

RECURSIVE NavigatePath(_, _)
NavigatePath(data, path) ==
    IF path = <<>> THEN Success(data)
    ELSE IF data.t = "obj"
    THEN IF Head(path) \in DOMAIN data.m
         THEN NavigatePath(data.m[Head(path)], Tail(path))
         ELSE Failure(<<"key not found at path position">>)
    ELSE IF data.t = "arr"
    THEN LET index == parseIndex(Head(path), Len(data.a)) IN
         IF ~index.ok THEN index
         ELSE IF index.v < 0 \/ index.v >= Len(data.a)
         THEN Failure(<<"array index out of bounds">>)
         ELSE NavigatePath(data.a[index.v + 1], Tail(path))
    ELSE Failure(<<"cannot navigate further: not an object or array">>)

(***************************************************************************)
(* internal/secret: extraction of the requested field.                     *)
(***************************************************************************)
ErrEmptySecretValue == "secret value is empty"

ErrInvalidSecretValue == "invalid secret value format"

ErrKeyNotFound == "key not found in secret"

\* formatSecretValue with CleanControlChars set; numbers and booleans in
\* their %v text, other values as compact JSON.
formatSecretValue(value) ==
    IF value.t = "str" THEN CleanControlChars(value.s)
    ELSE IF value.t = "num" THEN value.s
    ELSE IF value.t = "bool" THEN (IF value.b THEN JTrue ELSE JFalse)
    ELSE JsonMarshal(value)

\* A variant of ParseValueResult that returns the whole secret when a key
\* is requested and the secret is not JSON.
ParseValueResultWholeSecret(secretString, key) ==
    LET Navigated(valueResult) ==
            IF ~valueResult.ok THEN Failure(<<ErrKeyNotFound>> \o valueResult.err)
            ELSE Success(formatSecretValue(valueResult.v))
        Parsed(jsonResult) ==
            IF ~jsonResult.ok THEN Success(CleanControlChars(secretString))
            ELSE Navigated(NavigatePath(jsonResult.v, Split(key, ".")))
    IN IF secretString = EmptyStr THEN Failure(<<ErrEmptySecretValue>>)
       ELSE IF key = EmptyStr THEN Success(CleanControlChars(secretString))
       ELSE Parsed(ParseJSONResult(secretString))

\* A variant of ParseValueResult that accepts the empty secret.
ParseValueResultAcceptingEmpty(secretString, key) ==
    LET Navigated(valueResult) ==
            IF ~valueResult.ok THEN Failure(<<ErrKeyNotFound>> \o valueResult.err)
            ELSE Success(formatSecretValue(valueResult.v))
        Parsed(jsonResult) ==
            IF ~jsonResult.ok THEN Failure(<<ErrInvalidSecretValue>>)
            ELSE Navigated(NavigatePath(jsonResult.v, Split(key, ".")))
    IN IF key = EmptyStr THEN Success(CleanControlChars(secretString))
       ELSE Parsed(ParseJSONResult(secretString))

\* ParseValueWithOptionsResult with the default options.
ParseValueResult(secretString, key) ==
    LET Navigated(valueResult) ==
            IF ~valueResult.ok THEN Failure(<<ErrKeyNotFound>> \o valueResult.err)
            ELSE Success(formatSecretValue(valueResult.v))
        Parsed(jsonResult) ==
            IF ~jsonResult.ok THEN Failure(<<ErrInvalidSecretValue>>)
            ELSE Navigated(NavigatePath(jsonResult.v, Split(key, ".")))
    IN IF secretString = EmptyStr THEN Failure(<<ErrEmptySecretValue>>)
       ELSE IF key = EmptyStr THEN Success(CleanControlChars(secretString))
       ELSE Parsed(ParseJSONResult(secretString))

(***************************************************************************)
(* internal/provider/aws and internal/provider/googlecloud: the backends.  *)
(* Both keep a secret cache and a client cache; the state of one backend   *)
(* is a record [secretCache, clientCache].                                 *)
(***************************************************************************)
\* The platforms CreateProviderMap registers a backend for.
Platforms == {AwsPlatform, GoogleCloudPlatform}

\* The --endpoint-url of the run (none).
EndpointURL == EmptyStr

NewProvider == [secretCache |-> <<>>, clientCache |-> {}]

\* SecretRequest.GetCacheKey
GetCacheKey(uri) ==
    BuildCacheKey(uri.Account, uri.Service, uri.SecretName, uri.Version, uri.Region)

\* ClientConfig.GetCacheKey for AWS, the constant "default" for Google Cloud.
ClientCacheKey(uri) ==
    IF uri.Platform = AwsPlatform
    THEN Join(<<uri.Account, uri.Region, EndpointURL>>, <<":">>)
    ELSE <<"d", "e", "f", "a", "u", "l", "t">>

\* A variant of GetCachedSecret that never finds anything.
GetCachedSecretNone(p, cacheKey) == [some |-> FALSE]

GetCachedSecret(p, cacheKey) ==
    IF cacheKey \in DOMAIN p.secretCache
    THEN [some |-> TRUE, v |-> p.secretCache[cacheKey]]
    ELSE [some |-> FALSE]

\* A variant of CacheSecret that stores nothing.
CacheSecretDropped(p, cacheKey, value) == p

CacheSecret(p, cacheKey, value) ==
    [p EXCEPT !.secretCache = (cacheKey :> value) @@ @]

GetCachedClient(p, cacheKey) == cacheKey \in p.clientCache

CacheClient(p, cacheKey) == [p EXCEPT !.clientCache = @ \cup {cacheKey}]

\* GetClient: the cached client, or a new one that is cached when its
\* creation succeeds (out.client).
GetClient(p, uri, out) ==
    LET Cached(cacheKey) ==
            IF GetCachedClient(p, cacheKey) THEN [ok |-> TRUE, p |-> p]
            ELSE IF ~out.client THEN [ok |-> FALSE, p |-> p]
            ELSE [ok |-> TRUE, p |-> CacheClient(p, cacheKey)]
    IN Cached(ClientCacheKey(uri))

\* FetchSecret: the answer of the cloud API, an error, a response without
\* a payload, or the secret string.
FetchSecret(uri, out) ==
    IF out.api = "error" THEN Failure(<<"Secret Manager API error", out.cause>>)
    ELSE IF out.api = "nil" THEN Failure(<<"empty secret value">>)
    ELSE Success(out.secret)

\* RetrieveSecret: result, backend state and whether the API was called.
RetrieveSecret(p, uri, out) ==
    LET Fetched(client, secretResult) ==
            [result |-> IF ~secretResult.ok
                        THEN Failure(<<"failed to retrieve secret">> \o secretResult.err)
                        ELSE secretResult,
             p |-> client.p, called |-> TRUE]
        WithClient(client) ==
            IF ~client.ok
            THEN [result |-> Failure(<<"failed to get client", out.cause>>),
                  p |-> client.p, called |-> FALSE]
            ELSE Fetched(client, FetchSecret(uri, out))
    IN WithClient(GetClient(p, uri, out))

\* The rewording of a missing-key error by GetSecretValue.
WrapKeyNotFound(valueResult) ==
    IF ~valueResult.ok /\ \E i \in 1..Len(valueResult.err) : valueResult.err[i] = ErrKeyNotFound
    THEN Failure(<<"specified key does not exist in secret">> \o valueResult.err)
    ELSE valueResult

\* A variant of GetSecretValue that returns a cached secret as it is stored,
\* without extracting the requested field.
GetSecretValueHitUnparsed(p, uri, out) ==
    LET Retrieved(cacheKey, r) ==
            IF ~r.result.ok THEN r
            ELSE [result |-> WrapKeyNotFound(ParseValueResult(r.result.v, uri.Key)),
                  p |-> CacheSecret(r.p, cacheKey, r.result.v),
                  called |-> TRUE]
        Looked(cacheKey, cachedSecret) ==
            IF cachedSecret.some
            THEN [result |-> [ok |-> TRUE, v |-> cachedSecret.v],
                  p |-> p, called |-> FALSE]
            ELSE Retrieved(cacheKey, RetrieveSecret(p, uri, out))
        Keyed(cacheKey) == Looked(cacheKey, GetCachedSecret(p, cacheKey))
    IN Keyed(GetCacheKey(uri))

\* GetSecretValue: cache lookup, fetch and insert on a miss, then the
\* extraction of the requested field.
GetSecretValue(p, uri, out) ==
    LET Retrieved(cacheKey, r) ==
            IF ~r.result.ok THEN r
            ELSE [result |-> WrapKeyNotFound(ParseValueResult(r.result.v, uri.Key)),
                  p |-> CacheSecret(r.p, cacheKey, r.result.v),
                  called |-> TRUE]
        Looked(cacheKey, cachedSecret) ==
            IF cachedSecret.some
            THEN [result |-> WrapKeyNotFound(ParseValueResult(cachedSecret.v, uri.Key)),
                  p |-> p, called |-> FALSE]
            ELSE Retrieved(cacheKey, RetrieveSecret(p, uri, out))
        Keyed(cacheKey) == Looked(cacheKey, GetCachedSecret(p, cacheKey))
    IN Keyed(GetCacheKey(uri))

(***************************************************************************)
(* internal/provider: the resolution engine.                               *)
(***************************************************************************)
NoError == <<>>

NewSecretResult(values, keys) == [Values |-> values, Keys |-> keys, Error |-> NoError]

WithError(r, err) == [r EXCEPT !.Error = err]

IsSuccess(r) == r.Error = NoError

\* A variant of Merge that copies the two maps in the other order, so
\* that the values of r overwrite those of other.
MergeFirstWins(r, other) ==
    IF ~IsSuccess(r) THEN r
    ELSE IF ~IsSuccess(other) THEN other
    ELSE NewSecretResult(
             [k \in DOMAIN r.Values \cup DOMAIN other.Values |->
                 IF k \in DOMAIN r.Values THEN r.Values[k] ELSE other.Values[k]],
             r.Keys \o other.Keys)

\* SecretResult.Merge: the values of other overwrite those of r.
Merge(r, other) ==
    IF ~IsSuccess(r) THEN r
    ELSE IF ~IsSuccess(other) THEN other
    ELSE NewSecretResult(
             [k \in DOMAIN r.Values \cup DOMAIN other.Values |->
                 IF k \in DOMAIN other.Values THEN other.Values[k] ELSE r.Values[k]],
             r.Keys \o other.Keys)

ParseEntryAsSecretURI(entry) ==
    ParseResult(IF entry.Key # EmptyStr /\ entry.Value # EmptyStr
                THEN entry.Value ELSE entry.Key)

DetermineEntryKey(entry) ==
    IF entry.Key = EmptyStr \/ entry.Value = EmptyStr THEN EmptyStr ELSE entry.Key

\* A variant of handleRegularEntry that leaves the value out.
handleRegularEntryWithoutValue(entry) == (entry.Key :> EmptyStr)

handleRegularEntry(entry) ==
    IF entry.Key # EmptyStr /\ entry.Value # EmptyStr
    THEN (entry.Key :> entry.Value)
    ELSE (entry.Key :> EmptyStr)

\* RetrieveSecretResult: the backend registered for the platform is asked;
\* providers maps each registered platform to the state of its backend.
RetrieveSecretResult(uri, providers, out) ==
    LET Asked(r) ==
            [result |-> r.result,
             providers |-> [providers EXCEPT ![uri.Platform] = r.p],
             called |-> r.called]
    IN IF uri.Platform \notin DOMAIN providers
       THEN [result |-> Failure(<<"unsupported platform">>),
             providers |-> providers, called |-> FALSE]
       ELSE Asked(GetSecretValue(providers[uri.Platform], uri, out))

DetermineFinalKey(entryKey, uri) ==
    IF entryKey # EmptyStr THEN entryKey
    ELSE IF uri.Key # EmptyStr THEN uri.Key
    ELSE uri.SecretName

\* A variant of processJSONSecret that names every variable after the
\* member alone.
processJSONSecretBareKeys(entryKey, uri, jsonValues) ==
    LET stringValue(v) ==
            IF v.t = "str" THEN v.s
            ELSE IF v.t = "null" THEN EmptyStr
            ELSE JsonMarshal(v)
    IN [jk \in DOMAIN jsonValues |-> Trim(stringValue(jsonValues[jk]), {"'"})]

\* processJSONSecret: one variable per member of the JSON object.
processJSONSecret(entryKey, uri, jsonValues) ==
    LET finalKey(jsonKey) ==
            IF entryKey # EmptyStr THEN entryKey \o <<"_">> \o jsonKey ELSE jsonKey
        stringValue(v) ==
            IF v.t = "str" THEN v.s
            ELSE IF v.t = "null" THEN EmptyStr
            ELSE JsonMarshal(v)
    IN [fk \in {finalKey(jk) : jk \in DOMAIN jsonValues} |->
           LET jk == CHOOSE jk \in DOMAIN jsonValues : finalKey(jk) = fk
           IN Trim(stringValue(jsonValues[jk]), {"'"})]

\* processPlainTextSecret: the secret as one variable.
processPlainTextSecret(entryKey, uri, secretValue) ==
    LET finalValue(valueResult) ==
            IF uri.Key # EmptyStr /\ valueResult.ok THEN valueResult.v ELSE secretValue
    IN (DetermineFinalKey(entryKey, uri) :>
            Trim(finalValue(ParseValueResult(secretValue, uri.Key)), {"'"}))

ProcessSecretWithOptions(entryKey, uri, secretValue, noExpand) ==
    LET Parsed(jsonResult) ==
            IF jsonResult.ok /\ ~noExpand
            THEN processJSONSecret(entryKey, uri, jsonResult.v)
            ELSE processPlainTextSecret(entryKey, uri, secretValue)
    IN Parsed(ParseJSONMapResult(secretValue))

\* The orders in which ranging over a Go map can produce its keys.
ExtractKeys(m) ==
    {ks \in [1..Cardinality(DOMAIN m) -> DOMAIN m] :
        \A i, j \in 1..Cardinality(DOMAIN m) : i # j => ks[i] # ks[j]}

\* A variant of IsUnsupportedPlatform that looks for the text anywhere in
\* the message, as strings.Contains would.
IsUnsupportedPlatformAnywhere(err) ==
    \E i \in 1..Len(err) : err[i] = "unsupported platform"

\* strings.HasPrefix(err.Error(), "unsupported platform")
IsUnsupportedPlatform(err) == err[1] = "unsupported platform"

\* ProcessEntryResultWithOptions for entry number idx (0-based): the
\* SecretResult without its Keys, the backends and whether the cloud API
\* was called.
ProcessEntryResultWithOptions(idx, entry, providers, noExpand, out) ==
    LET Retrieved(uri, secretResult) ==
            IF ~secretResult.result.ok
            THEN IF IsUnsupportedPlatform(secretResult.result.err)
                 THEN [values |-> handleRegularEntry(entry), literal |-> TRUE,
                       error |-> NoError, line |-> 0,
                       providers |-> secretResult.providers, called |-> secretResult.called]
                 ELSE [values |-> <<>>, literal |-> FALSE,
                       error |-> <<"failed to retrieve secret for line">>
                                 \o secretResult.result.err,
                       line |-> idx + 1,
                       providers |-> secretResult.providers, called |-> secretResult.called]
            ELSE [values |-> ProcessSecretWithOptions(DetermineEntryKey(entry), uri,
                                                      secretResult.result.v, noExpand),
                  literal |-> FALSE, error |-> NoError, line |-> 0,
                  providers |-> secretResult.providers, called |-> secretResult.called]
        Parsed(uriResult) ==
            IF ~uriResult.ok
            THEN [values |-> handleRegularEntry(entry), literal |-> TRUE, error |-> NoError,
                  line |-> 0, providers |-> providers, called |-> FALSE]
            ELSE Retrieved(uriResult.v, RetrieveSecretResult(uriResult.v, providers, out))
    IN Parsed(ParseEntryAsSecretURI(entry))

(***************************************************************************)
(* internal/formatting and internal/env: the cache-file formatter.         *)
(***************************************************************************)
FormatKeyValuePair(key, value, useQuotes) ==
    IF useQuotes THEN key \o <<"=", "'">> \o value \o <<"'">>
    ELSE key \o <<"=">> \o value

UnwrapQuotes(value) ==
    IF Len(value) < 2 THEN value
    ELSE IF (value[1] = "\"" /\ value[Len(value)] = "\"")
            \/ (value[1] = "'" /\ value[Len(value)] = "'")
    THEN SubSeq(value, 2, Len(value) - 1)
    ELSE value

\* FormatValueForEnvResult: strings verbatim, numbers and booleans in their
\* %v text, anything else as compact JSON.
FormatValueForEnv(value) ==
    IF value.t = "str" THEN value.s
    ELSE IF value.t = "num" THEN value.s
    ELSE IF value.t = "bool" THEN (IF value.b THEN JTrue ELSE JFalse)
    ELSE JsonMarshal(value)

FormatJSONKeyValue(parentKey, jsonKey, jsonValue, useQuotes) ==
    FormatKeyValuePair(parentKey \o <<"_">> \o jsonKey,
                       UnwrapQuotes(FormatValueForEnv(jsonValue)), useQuotes)

IsJSONObject(s) ==
    LET trimmed == TrimSpace(s) IN
    Len(trimmed) >= 2 /\ trimmed[1] = "{" /\ trimmed[Len(trimmed)] = "}"

IsJSONArray(s) ==
    LET trimmed == TrimSpace(s) IN
    Len(trimmed) >= 2 /\ trimmed[1] = "[" /\ trimmed[Len(trimmed)] = "]"

IsJSONData(s) == IsJSONObject(s) \/ IsJSONArray(s)

CompactJSON(jsonString) ==
    LET r == JsonUnmarshal(jsonString) IN
    IF r.ok THEN JsonMarshal(r.v) ELSE jsonString

\* fmt's %d of a non-negative int.
RECURSIVE Itoa(_)
Itoa(n) ==
    IF n < 10 THEN <<CharOrder[Ord("0") + n]>>
    ELSE Itoa(n \div 10) \o <<CharOrder[Ord("0") + (n % 10)]>>

RECURSIVE processAnyJSONValue(_, _, _)
RECURSIVE processJSONObjectKeys(_, _, _, _)
RECURSIVE processJSONArrayItems(_, _, _, _)

\* The formatted pairs of the members named by keys, in that order.
processJSONObjectKeys(parentKey, jsonData, keys, useQuotes) ==
    IF keys = <<>> THEN <<>>
    ELSE LET jsonKey == Head(keys)
             jsonVal == jsonData[jsonKey]
         IN <<IF jsonVal.t \in {"obj", "arr"}
              THEN processAnyJSONValue(parentKey \o <<"_">> \o jsonKey, jsonVal, useQuotes)
              ELSE FormatJSONKeyValue(parentKey, jsonKey, jsonVal, useQuotes)>>
            \o processJSONObjectKeys(parentKey, jsonData, Tail(keys), useQuotes)

\* The formatted pairs of the elements from 0-based index i on.
processJSONArrayItems(parentKey, jsonArray, i, useQuotes) ==
    IF i >= Len(jsonArray) THEN <<>>
    ELSE LET item == jsonArray[i + 1]
             indexKey == parentKey \o <<"_">> \o Itoa(i)
         IN <<IF item.t \in {"obj", "arr"}
              THEN processAnyJSONValue(indexKey, item, useQuotes)
              ELSE FormatKeyValuePair(indexKey, UnwrapQuotes(FormatValueForEnv(item)),
                                      useQuotes)>>
            \o processJSONArrayItems(parentKey, jsonArray, i + 1, useQuotes)

processJSONObject(parentKey, jsonData, useQuotes) ==
    Join(processJSONObjectKeys(parentKey, jsonData, SortStrings(DOMAIN jsonData), useQuotes),
         <<"\n">>)

processJSONArray(parentKey, jsonArray, useQuotes) ==
    Join(processJSONArrayItems(parentKey, jsonArray, 0, useQuotes), <<"\n">>)

processAnyJSONValue(parentKey, jsonData, useQuotes) ==
    IF jsonData.t = "obj" THEN processJSONObject(parentKey, jsonData.m, useQuotes)
    ELSE IF jsonData.t = "arr" THEN processJSONArray(parentKey, jsonData.a, useQuotes)
    ELSE FormatKeyValuePair(parentKey, FormatValueForEnv(jsonData), useQuotes)

ProcessJSONValue(parentKey, jsonString, useQuotes) ==
    LET parseResult == ParseJSONResult(jsonString) IN
    IF ~parseResult.ok THEN FormatKeyValuePair(parentKey, jsonString, useQuotes)
    ELSE processAnyJSONValue(parentKey, parseResult.v, useQuotes)

\* sort.Strings on a slice.
RECURSIVE SortStringSeq(_)
SortStringSeq(keys) ==
    IF keys = <<>> THEN <<>>
    ELSE LET i == CHOOSE i \in 1..Len(keys) :
                      \A j \in 1..Len(keys) : ~LessStr(keys[j], keys[i])
         IN <<keys[i]>> \o SortStringSeq(SubSeq(keys, 1, i - 1) \o SubSeq(keys, i + 1, Len(keys)))

SortKeys(values) == SortStrings(DOMAIN values)

MergeSortedKeys(sortedKeys, values) ==
    LET result == SelectSeq(sortedKeys, LAMBDA k : k \in DOMAIN values)
        processed == {sortedKeys[i] : i \in 1..Len(sortedKeys)} \cap DOMAIN values
    IN result \o SortStrings(DOMAIN values \ processed)

FilterAndSortKeys(values, sortedKeys) ==
    IF Len(sortedKeys) = 0 THEN SortKeys(values)
    ELSE SortStringSeq(MergeSortedKeys(sortedKeys, values))

\* OrganizeKeyOrder: all keys of the values, sorted.
OrganizeKeyOrder(ents, values) == SortStrings(DOMAIN values)

\* A variant of IsSecretURI that only knows the bare scheme prefix.
IsSecretURIExactly(key) == key = URIPrefix

IsSecretURI(key) == HasPrefix(key, URIPrefix)

\* The text FormatEnvVarContent appends for the i-th key of filteredKeys.
FormatEnvVarPiece(values, options, filteredKeys, i) ==
    LET key == filteredKeys[i]
        value == UnwrapQuotes(values[key])
        sep == IF i > 1 THEN <<"\n">> ELSE EmptyStr
    IN IF IsSecretURI(key) /\ ~options.IncludeURIs THEN sep
       ELSE IF IsJSONData(value) /\ ~options.NoExpandJson
       THEN sep \o ProcessJSONValue(key, value, options.UseQuotes)
       ELSE sep \o FormatKeyValuePair(key,
                       IF IsJSONData(value) THEN CompactJSON(value) ELSE value,
                       options.UseQuotes)

RECURSIVE FormatEnvVarFrom(_, _, _, _)
FormatEnvVarFrom(values, options, filteredKeys, i) ==
    IF i > Len(filteredKeys) THEN EmptyStr
    ELSE FormatEnvVarPiece(values, options, filteredKeys, i)
         \o FormatEnvVarFrom(values, options, filteredKeys, i + 1)

\* FormatEnvVarContent: the content of the cache file.
FormatEnvVarContent(values, options) ==
    FormatEnvVarFrom(values, options, FilterAndSortKeys(values, options.SortedKeys), 1)

(***************************************************************************)
(* The inputs of the model: lines of the env file and secrets the cloud     *)
(* API can return.                                                         *)
(***************************************************************************)
\* An export name and an AWS secret: A=sem://aws:s/a/n
LineAwsNamed ==
    <<"A", "=", "s", "e", "m", ":", "/", "/", "a", "w", "s", ":", "s", "/",
      "a", "/", "n">>

\* The same secret with a requested key: A=sem://aws:s/a/n?key=k
LineAwsNamedKey ==
    <<"A", "=", "s", "e", "m", ":", "/", "/", "a", "w", "s", ":", "s", "/",
      "a", "/", "n", "?", "k", "e", "y", "=", "k">>

\* The same secret without an export name: sem://aws:s/a/n
LineAwsBare ==
    <<"s", "e", "m", ":", "/", "/", "a", "w", "s", ":", "s", "/", "a", "/",
      "n">>

\* A Google Cloud secret: k=sem://googlecloud:s/a/n
LineGcpNamed ==
    <<"k", "=", "s", "e", "m", ":", "/", "/", "g", "o", "o", "g", "l", "e",
      "c", "l", "o", "u", "d", ":", "s", "/", "a", "/", "n">>

\* A direct assignment: A=v
LineLiteral == <<"A", "=", "v">>

\* A key without a value: k
LineKeyOnly == <<"k">>

\* A platform without a backend: A=sem://gcp:s/a/n
LineUnsupported ==
    <<"A", "=", "s", "e", "m", ":", "/", "/", "g", "c", "p", ":", "s", "/",
      "a", "/", "n">>

\* An address without a secret name: A=sem://aws:s/a
LineBadURI ==
    <<"A", "=", "s", "e", "m", ":", "/", "/", "a", "w", "s", ":", "s", "/",
      "a">>

\* A value without a key: =v
LineNoKey == <<"=", "v">>

\* A blank line.
LineBlank == <<>>

\* An address without a secret name and without an export name: sem://aws:s/a
LineBareBadURI ==
    <<"s", "e", "m", ":", "/", "/", "a", "w", "s", ":", "s", "/", "a">>

\* A direct assignment of a JSON array: A=[1]
LineLiteralJSON == <<"A", "=", "[", "1", "]">>

\* A JSON object with the member k: {"k":"v"}
SecretObject == <<"{", "\"", "k", "\"", ":", "\"", "v", "\"", "}">>

\* Text that is not JSON: x
SecretText == <<"x">>

\* The empty string: ""
SecretEmpty == <<>>

\* A JSON object without members: {}
SecretEmptyObject == <<"{", "}">>

\* A JSON object with a null and an array member: {"j":null,"k":[1]}
SecretNested ==
    <<"{", "\"", "j", "\"", ":", "n", "u", "l", "l", ",", "\"", "k", "\"",
      ":", "[", "1", "]", "}">>

\* Quoted text with a trailing line feed: 'y'\n
SecretQuoted == <<"'", "y", "'", "\n">>

\* A JSON object in a JSON object: {"k":{"j":1,"k":"z"}}
SecretDeep ==
    <<"{", "\"", "k", "\"", ":", "{", "\"", "j", "\"", ":", "1", ",",
      "\"", "k", "\"", ":", "\"", "z", "\"", "}", "}">>

\* Text in double quotes in single quotes: '"y"'
SecretTwiceQuoted == <<"'", "\"", "y", "\"", "'">>

InputLines ==
    {LineAwsNamed, LineAwsNamedKey, LineAwsBare,
     LineGcpNamed, LineLiteral, LineKeyOnly,
     LineUnsupported, LineBadURI, LineNoKey,
     LineBlank, LineBareBadURI, LineLiteralJSON}

Secrets ==
    {SecretObject, SecretText, SecretEmpty,
     SecretEmptyObject, SecretNested, SecretQuoted, SecretDeep,
     SecretTwiceQuoted}

\* The causes a backend can report for a failed call.
Causes == {"AccessDenied", "unsupported platform"}

\* What the cloud answers to one fetch: whether a client can be created,
\* and the API's answer.
Outcomes ==
    {[client |-> FALSE, api |-> "ok", cause |-> "AccessDenied", secret |-> EmptyStr]}
    \cup {[client |-> TRUE, api |-> "error", cause |-> c, secret |-> EmptyStr] : c \in Causes}
    \cup {[client |-> TRUE, api |-> "nil", cause |-> "AccessDenied", secret |-> EmptyStr]}
    \cup {[client |-> TRUE, api |-> "ok", cause |-> "AccessDenied", secret |-> s] : s \in Secrets}

\* The env files of at most MaxLines lines, and the missing file.
RECURSIVE FilesOfLength(_)
FilesOfLength(n) ==
    IF n = 0 THEN {<<>>}
    ELSE {Append(f, l) : f \in FilesOfLength(n - 1), l \in InputLines}

InputFiles ==
    {[exists |-> FALSE, data |-> EmptyStr]}
    \cup {[exists |-> TRUE, data |-> Join(f, <<"\n">>)] :
             f \in UNION {FilesOfLength(n) : n \in 0..MaxLines}}

\* What `git check-ignore` can answer: its exit code and whether it printed.
GitOutcomes ==
    {[exit |-> 0, output |-> TRUE], [exit |-> 0, output |-> FALSE],
     [exit |-> 1, output |-> FALSE], [exit |-> 128, output |-> TRUE]}

\* The cache file before the run: absent, or left by an earlier run.
OldCacheFiles ==
    {[exists |-> FALSE, content |-> EmptyStr],
     [exists |-> TRUE, content |-> <<"o", "l", "d">>]}

(***************************************************************************)
(* internal/fileio: cache file name and git-ignore check.                  *)
(***************************************************************************)
\* The --input of the run (the default of the flag).
InputFileName == <<".", "e", "n", "v">>

GenerateCacheFileName(inputFileName) ==
    LET safeFileName == [i \in 1..Len(inputFileName) |->
                            IF inputFileName[i] = "/" THEN "_" ELSE inputFileName[i]]
    IN IF HasPrefix(safeFileName, <<".">>)
       THEN <<".", "c", "a", "c", "h", "e">> \o safeFileName
       ELSE <<".", "c", "a", "c", "h", "e", ".">> \o safeFileName

NewGitIgnoreStatus(isIgnored, err) == [IsIgnored |-> isIgnored, Error |-> err]

\* A variant of ExecuteGitCheckIgnore that does not look at the error of
\* the command when its exit code is not 1.
ExecuteGitCheckIgnoreUnchecked(git) ==
    IF git.exit = 1 THEN NewGitIgnoreStatus(FALSE, NoError)
    ELSE NewGitIgnoreStatus(git.output, NoError)

\* ExecuteGitCheckIgnore: exit code 1 means not ignored, any other failure
\* is an error, otherwise the file is ignored when git printed its name.
ExecuteGitCheckIgnore(git) ==
    IF git.exit = 1 THEN NewGitIgnoreStatus(FALSE, NoError)
    ELSE IF git.exit # 0
    THEN NewGitIgnoreStatus(FALSE, <<"error checking git ignore status">>)
    ELSE NewGitIgnoreStatus(git.output, NoError)

CheckGitIgnoreStatus(fileName, git) ==
    IF fileName = EmptyStr THEN NewGitIgnoreStatus(FALSE, NoError)
    ELSE ExecuteGitCheckIgnore(git)

\* GitIgnoreStatus.AsResult
AsResult(g) == IF g.Error # NoError THEN Failure(g.Error) ELSE Success(g.IsIgnored)

IsFileIgnored(fileName, git) == AsResult(CheckGitIgnoreStatus(fileName, git))

(***************************************************************************)
(* cmd/update.go: the update command as a state machine.                   *)
(***************************************************************************)
VARIABLES
    pc,            \* position of performUpdate
    gitOutcome,    \* what git check-ignore answers for the cache file
    inputFile,     \* the env file on disk
    outFile,       \* the cache file on disk
    outFile0,      \* the cache file as it was when the command started
    noExpandJson,  \* the --no-expand-json flag
    inputRead,     \* whether the env file has been read
    entries,       \* the parsed entries
    idx,           \* number of entries ProcessEntriesResult has gone through
    result,        \* the SecretResult accumulated by ProcessEntriesResult
    providers,     \* the backends of CreateProviderMap
    apiCalls,      \* the calls made to the cloud APIs, in order
    trace,         \* what happened to each entry gone through, in order
    failure,       \* the error performUpdate returns
    goroutines,    \* where each goroutine that uses the backends directly is
    mux,           \* the read/write locks of the caches of the backends
    call           \* a direct call of a function of the formatter

vars == <<pc, gitOutcome, inputFile, outFile, outFile0, noExpandJson, inputRead,
          entries, idx, result, providers, apiCalls, trace, failure,
          goroutines, mux, call>>

\* The variables of the update command, the backends apart.
updateVars == <<pc, gitOutcome, inputFile, outFile, outFile0, noExpandJson, inputRead,
                entries, idx, result, apiCalls, trace, failure>>

\* The variables of the direct uses of the library.
libraryVars == <<goroutines, mux, call>>

\* No direct call of the formatter.
NoCall == [fn |-> "none"]

NoFailure == [stage |-> "none", line |-> 0, err |-> NoError]

Init ==
    /\ pc = "start"
    /\ gitOutcome \in GitOutcomes
    /\ inputFile \in InputFiles
    /\ outFile \in OldCacheFiles
    /\ outFile0 = outFile
    /\ noExpandJson \in BOOLEAN
    /\ inputRead = FALSE
    /\ entries = <<>>
    /\ idx = 0
    /\ result = NewSecretResult(<<>>, <<>>)
    /\ providers = <<>>
    /\ apiCalls = <<>>
    /\ trace = <<>>
    /\ failure = NoFailure
    /\ goroutines = <<>>
    /\ mux = <<>>
    /\ call = NoCall

\* performUpdate, step 1: the cache file must be ignored by git.
CheckGitIgnore ==
    /\ pc = "start"
    /\ LET gitIgnoreResult == IsFileIgnored(GenerateCacheFileName(InputFileName), gitOutcome)
       IN IF ~gitIgnoreResult.ok
          THEN /\ pc' = "failed"
               /\ failure' = [stage |-> "git", line |-> 0, err |-> gitIgnoreResult.err]
          ELSE IF ~gitIgnoreResult.v
          THEN /\ pc' = "failed"
               /\ failure' = [stage |-> "git", line |-> 0,
                              err |-> <<"output file is not ignored by git">>]
          ELSE /\ pc' = "checked"
               /\ failure' = failure
    /\ UNCHANGED <<gitOutcome, inputFile, outFile, outFile0, noExpandJson, inputRead,
                   entries, idx, result, providers, apiCalls, trace>>
    /\ UNCHANGED libraryVars

\* CreateProviderMap: one fresh backend per registered platform.
CreateProviderMap == [p \in Platforms |-> NewProvider]

\* performUpdate, step 2, and the start of acquireSecrets: the env file is
\* read and parsed, the backends are created.
ReadInput ==
    /\ pc = "checked"
    /\ inputRead' = TRUE
    /\ IF ~inputFile.exists
       THEN /\ pc' = "failed"
            /\ failure' = [stage |-> "read", line |-> 0, err |-> <<"failed to read file">>]
            /\ UNCHANGED <<entries, providers>>
       ELSE /\ pc' = "resolving"
            /\ entries' = ParsePlainFileContent(inputFile.data)
            /\ providers' = CreateProviderMap
            /\ failure' = failure
    /\ UNCHANGED <<gitOutcome, inputFile, outFile, outFile0, noExpandJson,
                   idx, result, apiCalls, trace>>
    /\ UNCHANGED libraryVars

\* A variant of ProcessEntriesStep that attaches the error to what was
\* accumulated so far.
ProcessEntriesStepKeepingPairs(acc, entryResult) ==
    IF ~IsSuccess(entryResult) THEN WithError(acc, entryResult.Error)
    ELSE Merge(acc, entryResult)

\* The body of the loop of ProcessEntriesResult: a failed entry is the
\* result, a resolved one is merged.
ProcessEntriesStep(acc, entryResult) ==
    IF ~IsSuccess(entryResult) THEN entryResult ELSE Merge(acc, entryResult)

\* What the model records about one entry gone through.
TraceRecord(entry, uriResult, r, out) ==
    LET Keyed(dispatched, cacheKey) ==
            [index |-> entry.Index, key |-> entry.Key, value |-> entry.Value,
             parsed |-> uriResult.ok,
             platform |-> IF uriResult.ok THEN uriResult.v.Platform ELSE EmptyStr,
             uriKey |-> IF uriResult.ok THEN uriResult.v.Key ELSE EmptyStr,
             service |-> IF uriResult.ok THEN uriResult.v.Service ELSE EmptyStr,
             account |-> IF uriResult.ok THEN uriResult.v.Account ELSE EmptyStr,
             secretName |-> IF uriResult.ok THEN uriResult.v.SecretName ELSE EmptyStr,
             cacheKey |-> cacheKey,
             dispatched |-> dispatched,
             cacheHit |-> IF dispatched
                          THEN cacheKey \in DOMAIN providers[uriResult.v.Platform].secretCache
                          ELSE FALSE,
             clientCached |-> IF dispatched
                              THEN GetCachedClient(providers[uriResult.v.Platform],
                                                   ClientCacheKey(uriResult.v))
                              ELSE FALSE,
             out |-> out,
             called |-> r.called,
             hasRaw |-> IF dispatched
                        THEN cacheKey \in DOMAIN r.providers[uriResult.v.Platform].secretCache
                        ELSE FALSE,
             raw |-> IF dispatched
                        /\ cacheKey \in DOMAIN r.providers[uriResult.v.Platform].secretCache
                     THEN r.providers[uriResult.v.Platform].secretCache[cacheKey]
                     ELSE EmptyStr,
             failed |-> r.error # NoError,
             literal |-> r.literal,
             values |-> r.values]
    IN Keyed(uriResult.ok /\ uriResult.v.Platform \in DOMAIN providers,
             IF uriResult.ok THEN GetCacheKey(uriResult.v) ELSE EmptyStr)

\* The answers of the cloud that matter for an entry: all of them when the
\* entry leads to a fetch, one otherwise.
OutcomesFor(entry) ==
    LET Parsed(uriResult) ==
            IF /\ uriResult.ok
               /\ uriResult.v.Platform \in DOMAIN providers
               /\ ~GetCachedSecret(providers[uriResult.v.Platform],
                                   GetCacheKey(uriResult.v)).some
            THEN Outcomes
            ELSE {CHOOSE o \in Outcomes : TRUE}
    IN Parsed(ParseEntryAsSecretURI(entry))

\* One iteration of the loop of ProcessEntriesResult.
ProcessEntry ==
    /\ pc = "resolving"
    /\ idx < Len(entries)
    /\ \E out \in OutcomesFor(entries[idx + 1]) :
         LET Merged(r, entryResult) ==
                 /\ result' = ProcessEntriesStep(result, entryResult)
                 /\ providers' = r.providers
                 /\ IF ~IsSuccess(entryResult)
                    THEN /\ pc' = "failed"
                         /\ failure' = [stage |-> "resolve", line |-> r.line, err |-> r.error]
                         /\ idx' = idx
                    ELSE /\ pc' = pc
                         /\ failure' = failure
                         /\ idx' = idx + 1
             Processed(entry, uriResult, r) ==
                 /\ \E keys \in (IF r.literal THEN {<<entry.Key>>} ELSE ExtractKeys(r.values)) :
                        Merged(r, WithError(NewSecretResult(r.values, keys), r.error))
                 /\ apiCalls' = IF r.called
                                THEN Append(apiCalls,
                                            [platform |-> uriResult.v.Platform,
                                             cacheKey |-> GetCacheKey(uriResult.v),
                                             ok |-> out.api = "ok"])
                                ELSE apiCalls
                 /\ trace' = Append(trace, TraceRecord(entry, uriResult, r, out))
         IN Processed(entries[idx + 1],
                      ParseEntryAsSecretURI(entries[idx + 1]),
                      ProcessEntryResultWithOptions(idx, entries[idx + 1], providers,
                                                    noExpandJson, out))
    /\ UNCHANGED <<gitOutcome, inputFile, outFile, outFile0, noExpandJson, inputRead,
                   entries>>
    /\ UNCHANGED libraryVars

\* The end of acquireSecrets and performUpdate, step 4: the resolved values
\* are formatted and written to the cache file.
WriteOutput ==
    /\ pc = "resolving"
    /\ idx = Len(entries)
    /\ \E noQuotes \in BOOLEAN, writeOk \in BOOLEAN :
         LET options == [UseQuotes |-> ~noQuotes,
                         SortedKeys |-> OrganizeKeyOrder(entries, result.Values),
                         IncludeURIs |-> FALSE,
                         NoExpandJson |-> noExpandJson]
         IN IF writeOk
            THEN /\ outFile' = [exists |-> TRUE,
                                content |-> FormatEnvVarContent(result.Values, options)]
                 /\ pc' = "done"
                 /\ failure' = failure
            ELSE /\ outFile' \in {outFile, [exists |-> TRUE, content |-> EmptyStr]}
                 /\ pc' = "failed"
                 /\ failure' = [stage |-> "write", line |-> 0,
                                err |-> <<"failed to write to output file">>]
    /\ UNCHANGED <<gitOutcome, inputFile, outFile0, noExpandJson, inputRead,
                   entries, idx, result, providers, apiCalls, trace>>
    /\ UNCHANGED libraryVars

Next == CheckGitIgnore \/ ReadInput \/ ProcessEntry \/ WriteOutput

Spec == Init /\ [][Next]_vars

(***************************************************************************)
(* The backends used from several goroutines: every method that touches a  *)
(* cache takes the read/write lock of that cache and releases it when it   *)
(* returns.                                                                *)
(***************************************************************************)
NumGoroutines == 2

Goroutines == 1..NumGoroutines

\* sync.RWMutex: the goroutines that hold it for reading and for writing.
NewRWMutex == [readers |-> {}, writer |-> {}]

CanRLock(m) == m.writer = {}

CanLock(m) == m.writer = {} /\ m.readers = {}

RLock(m, g) == [m EXCEPT !.readers = @ \cup {g}]

RUnlock(m, g) == [m EXCEPT !.readers = @ \ {g}]

Lock(m, g) == [m EXCEPT !.writer = @ \cup {g}]

Unlock(m, g) == [m EXCEPT !.writer = @ \ {g}]

\* The two locks of a backend.
SecretCacheMux(p) == <<p, "secretCacheMux">>

ClientCacheMux(p) == <<p, "clientCacheMux">>

\* A goroutine outside the backends.
Idle == [at |-> "idle", platform |-> EmptyStr, key |-> EmptyStr, value |-> EmptyStr]

\* The address the goroutines ask for, and the secrets they store.
SharedURI == ParseResult(LineAwsBare).v

StoredSecrets == {SecretText, SecretObject}

\* The state when the caller has created the backends and no update runs.
NoUpdate ==
    /\ pc = "library"
    /\ gitOutcome = [exit |-> 0, output |-> TRUE]
    /\ inputFile = [exists |-> FALSE, data |-> EmptyStr]
    /\ outFile = [exists |-> FALSE, content |-> EmptyStr]
    /\ outFile0 = outFile
    /\ noExpandJson = FALSE
    /\ inputRead = FALSE
    /\ entries = <<>>
    /\ idx = 0
    /\ result = NewSecretResult(<<>>, <<>>)
    /\ apiCalls = <<>>
    /\ trace = <<>>
    /\ failure = NoFailure

InitLocks ==
    /\ NoUpdate
    /\ providers = CreateProviderMap
    /\ goroutines = [g \in Goroutines |-> Idle]
    /\ mux = [m \in {SecretCacheMux(p) : p \in Platforms}
                    \cup {ClientCacheMux(p) : p \in Platforms} |-> NewRWMutex]
    /\ call = NoCall

\* Goroutine g enters the method at of the backend p.
Enters(g, at, p, key, value) ==
    goroutines' = [goroutines EXCEPT ![g] =
                      [at |-> at, platform |-> p, key |-> key, value |-> value]]

\* GetCachedSecret: p.secretCacheMux.RLock()
GetCachedSecretEnter ==
    \E g \in Goroutines, p \in Platforms :
        /\ goroutines[g] = Idle
        /\ CanRLock(mux[SecretCacheMux(p)])
        /\ mux' = [mux EXCEPT ![SecretCacheMux(p)] = RLock(@, g)]
        /\ Enters(g, "GetCachedSecret", p, GetCacheKey(SharedURI), EmptyStr)
        /\ UNCHANGED <<providers, call, updateVars>>

\* GetCachedSecret: the lookup, and the deferred RUnlock.
GetCachedSecretReturn ==
    \E g \in Goroutines :
        /\ goroutines[g].at = "GetCachedSecret"
        /\ GetCachedSecret(providers[goroutines[g].platform], goroutines[g].key).some
             \in BOOLEAN
        /\ mux' = [mux EXCEPT ![SecretCacheMux(goroutines[g].platform)] = RUnlock(@, g)]
        /\ goroutines' = [goroutines EXCEPT ![g] = Idle]
        /\ UNCHANGED <<providers, call, updateVars>>

\* A variant of CacheSecretEnter that takes the lock for reading.
CacheSecretEnterShared ==
    \E g \in Goroutines, p \in Platforms, v \in StoredSecrets :
        /\ goroutines[g] = Idle
        /\ CanRLock(mux[SecretCacheMux(p)])
        /\ mux' = [mux EXCEPT ![SecretCacheMux(p)] = RLock(@, g)]
        /\ Enters(g, "CacheSecret", p, GetCacheKey(SharedURI), v)
        /\ UNCHANGED <<providers, call, updateVars>>

\* CacheSecret: p.secretCacheMux.Lock()
CacheSecretEnter ==
    \E g \in Goroutines, p \in Platforms, v \in StoredSecrets :
        /\ goroutines[g] = Idle
        /\ CanLock(mux[SecretCacheMux(p)])
        /\ mux' = [mux EXCEPT ![SecretCacheMux(p)] = Lock(@, g)]
        /\ Enters(g, "CacheSecret", p, GetCacheKey(SharedURI), v)
        /\ UNCHANGED <<providers, call, updateVars>>

\* CacheSecret: the store, and the deferred Unlock.
CacheSecretReturn ==
    \E g \in Goroutines :
        /\ goroutines[g].at = "CacheSecret"
        /\ providers' = [providers EXCEPT ![goroutines[g].platform] =
                            CacheSecret(@, goroutines[g].key, goroutines[g].value)]
        /\ mux' = [mux EXCEPT ![SecretCacheMux(goroutines[g].platform)] =
                      Unlock(@, g)]
        /\ goroutines' = [goroutines EXCEPT ![g] = Idle]
        /\ UNCHANGED <<call, updateVars>>

\* GetCachedClient: p.clientCacheMux.RLock()
GetCachedClientEnter ==
    \E g \in Goroutines, p \in Platforms :
        /\ goroutines[g] = Idle
        /\ CanRLock(mux[ClientCacheMux(p)])
        /\ mux' = [mux EXCEPT ![ClientCacheMux(p)] = RLock(@, g)]
        /\ Enters(g, "GetCachedClient", p, ClientCacheKey(SharedURI), EmptyStr)
        /\ UNCHANGED <<providers, call, updateVars>>

\* GetCachedClient: the lookup, and the deferred RUnlock.
GetCachedClientReturn ==
    \E g \in Goroutines :
        /\ goroutines[g].at = "GetCachedClient"
        /\ GetCachedClient(providers[goroutines[g].platform], goroutines[g].key)
             \in BOOLEAN
        /\ mux' = [mux EXCEPT ![ClientCacheMux(goroutines[g].platform)] = RUnlock(@, g)]
        /\ goroutines' = [goroutines EXCEPT ![g] = Idle]
        /\ UNCHANGED <<providers, call, updateVars>>

\* CacheClient: p.clientCacheMux.Lock()
CacheClientEnter ==
    \E g \in Goroutines, p \in Platforms :
        /\ goroutines[g] = Idle
        /\ CanLock(mux[ClientCacheMux(p)])
        /\ mux' = [mux EXCEPT ![ClientCacheMux(p)] = Lock(@, g)]
        /\ Enters(g, "CacheClient", p, ClientCacheKey(SharedURI), EmptyStr)
        /\ UNCHANGED <<providers, call, updateVars>>

\* CacheClient: the store, and the deferred Unlock.
CacheClientReturn ==
    \E g \in Goroutines :
        /\ goroutines[g].at = "CacheClient"
        /\ providers' = [providers EXCEPT ![goroutines[g].platform] =
                            CacheClient(@, goroutines[g].key)]
        /\ mux' = [mux EXCEPT ![ClientCacheMux(goroutines[g].platform)] = Unlock(@, g)]
        /\ goroutines' = [goroutines EXCEPT ![g] = Idle]
        /\ UNCHANGED <<call, updateVars>>

NextLocks ==
    \/ GetCachedSecretEnter
    \/ GetCachedSecretReturn
    \/ CacheSecretEnter
    \/ CacheSecretReturn
    \/ GetCachedClientEnter
    \/ GetCachedClientReturn
    \/ CacheClientEnter
    \/ CacheClientReturn

SpecLocks == InitLocks /\ [][NextLocks]_vars

(***************************************************************************)
(* The formatter called directly: a caller hands FormatEnvVarContent a map *)
(* and options of its own, or FormatLineResult a key and a value.          *)
(***************************************************************************)
MaxKeys == 2

MaxValueLen == 3

\* All sequences over S of length at most n.
SeqsUpTo(S, n) == UNION {[1..k -> S] : k \in 0..n}

\* The names and the values of the maps handed to FormatEnvVarContent.
FormatKeys == {<<"A">>, <<"A", "0">>, <<"A", "_", "b">>, <<"B">>}

FormatValues == {<<"x">>, <<"{", "\"", "b", "\"", ":", "1", "}">>}

EnvVarMaps ==
    UNION {[K -> FormatValues] : K \in {K \in SUBSET FormatKeys : Cardinality(K) <= MaxKeys}}

EnvVarOptions ==
    [UseQuotes : BOOLEAN, SortedKeys : SeqsUpTo(FormatKeys, MaxKeys),
     IncludeURIs : BOOLEAN, NoExpandJson : BOOLEAN]

\* The keys and the values handed to FormatLineResult.
LineKeys == {EmptyStr, <<"K">>}

LineValues == SeqsUpTo({"a", "'"}, MaxValueLen)

HasSingleQuotes(s) == HasPrefix(s, <<"'">>) /\ HasSuffix(s, <<"'">>)

FormatExportLine(key, value) ==
    IF HasSingleQuotes(value)
    THEN <<"e", "x", "p", "o", "r", "t", " ">> \o key \o <<"=">> \o value
    ELSE IF Contains(value, "'")
    THEN <<"e", "x", "p", "o", "r", "t", " ">> \o key \o <<"=", "'">>
            \o Join(Split(value, "'"), <<"'", "\\", "'", "'">>) \o <<"'">>
    ELSE <<"e", "x", "p", "o", "r", "t", " ">> \o key \o <<"=", "'">> \o value \o <<"'">>

FormatLineResult(key, value, useExport, useQuotes) ==
    IF key = EmptyStr
    THEN Failure(<<"invalid environment variable format">>)
    ELSE IF useExport THEN Success(FormatExportLine(key, value))
    ELSE Success(FormatKeyValuePair(key, value, useQuotes))

\* The calls a caller can make.
FormatCalls ==
    [fn : {"FormatEnvVarContent"}, values : EnvVarMaps, options : EnvVarOptions,
     returned : {FALSE}]
    \cup
    [fn : {"FormatLineResult"}, key : LineKeys, value : LineValues,
     useExport : BOOLEAN, useQuotes : BOOLEAN, returned : {FALSE}]

InitFormat ==
    /\ NoUpdate
    /\ providers = <<>>
    /\ goroutines = <<>>
    /\ mux = <<>>
    /\ call \in FormatCalls

\* The call with its result.
Returns(r) ==
    [x \in DOMAIN call \cup {"result"} |->
        IF x = "result" THEN r ELSE IF x = "returned" THEN TRUE ELSE call[x]]

CallFormatEnvVarContent ==
    /\ call.fn = "FormatEnvVarContent"
    /\ ~call.returned
    /\ call' = Returns(FormatEnvVarContent(call.values, call.options))
    /\ UNCHANGED <<providers, goroutines, mux, updateVars>>

CallFormatLineResult ==
    /\ call.fn = "FormatLineResult"
    /\ ~call.returned
    /\ call' = Returns(FormatLineResult(call.key, call.value, call.useExport,
                                        call.useQuotes))
    /\ UNCHANGED <<providers, goroutines, mux, updateVars>>

NextFormat ==
    \/ CallFormatEnvVarContent
    \/ CallFormatLineResult

SpecFormat == InitFormat /\ [][NextFormat]_vars

(***************************************************************************)
(* The parsers and the JSON navigator called directly: a caller hands      *)
(* ParsePlainFileContent the bytes of an env file, ParseResult an address, *)
(* NavigatePath an array and a path of one segment.                        *)
(***************************************************************************)
MaxContentLen == 4

\* The characters of the env files handed to the parser.
ContentChars == {"k", "=", " ", "'", "#", "\n"}

\* The addresses handed to the address parser: a platform, and a version and
\* a region that are given or left out (the empty string).
AddressPlatforms == {AwsPlatform, GoogleCloudPlatform, <<"g", "c", "p">>}

AddressVersions == {EmptyStr, <<"1">>}

AddressRegions == {EmptyStr, <<"r">>}

\* sem://<platform>:s/a/n?version=<version>&region=<region>
AddressText(platform, version, region) ==
    LET v == IF version = EmptyStr THEN <<>>
             ELSE <<(<<"v", "e", "r", "s", "i", "o", "n", "=">> \o version)>>
        r == IF region = EmptyStr THEN <<>>
             ELSE <<(<<"r", "e", "g", "i", "o", "n", "=">> \o region)>>
    IN URIPrefix \o platform \o <<":", "s", "/", "a", "/", "n">>
       \o (IF v \o r = <<>> THEN EmptyStr ELSE <<"?">> \o Join(v \o r, <<"&">>))

\* The arrays and the path segments handed to the navigator: the array of
\* the given length holds the numbers 0, 1, ... in this order.
MaxArrayLen == 3

MaxSegmentLen == 2

SegmentChars == {"-", "0", "1", "2", "3", "4", "a"}

ArrayOfLength(n) == JArr([i \in 1..n |-> JNum(Itoa(i - 1))])

ParseCalls ==
    [fn : {"ParsePlainFileContent"}, content : SeqsUpTo(ContentChars, MaxContentLen),
     returned : {FALSE}]
    \cup
    [fn : {"ParseResult"}, platform : AddressPlatforms, version : AddressVersions,
     region : AddressRegions, returned : {FALSE}]
    \cup
    [fn : {"NavigatePath"}, length : 0..MaxArrayLen,
     segment : SeqsUpTo(SegmentChars, MaxSegmentLen), returned : {FALSE}]

InitParse ==
    /\ NoUpdate
    /\ providers = <<>>
    /\ goroutines = <<>>
    /\ mux = <<>>
    /\ call \in ParseCalls

CallParsePlainFileContent ==
    /\ call.fn = "ParsePlainFileContent"
    /\ ~call.returned
    /\ call' = Returns(ParsePlainFileContent(call.content))
    /\ UNCHANGED <<providers, goroutines, mux, updateVars>>

CallParseResult ==
    /\ call.fn = "ParseResult"
    /\ ~call.returned
    /\ call' = Returns(ParseResult(AddressText(call.platform, call.version, call.region)))
    /\ UNCHANGED <<providers, goroutines, mux, updateVars>>

CallNavigatePath ==
    /\ call.fn = "NavigatePath"
    /\ ~call.returned
    /\ call' = Returns(NavigatePath(ArrayOfLength(call.length), <<call.segment>>))
    /\ UNCHANGED <<providers, goroutines, mux, updateVars>>

NextParse ==
    \/ CallParsePlainFileContent
    \/ CallParseResult
    \/ CallNavigatePath

SpecParse == InitParse /\ [][NextParse]_vars

(***************************************************************************)
(* GetSecretValue called from several goroutines for one address.  Each    *)
(* method that touches a cache holds the lock of that cache from its first *)
(* statement to its return, so it is one step; the goroutines interleave   *)
(* between the methods.                                                    *)
(***************************************************************************)
\* The address every goroutine resolves on backend p.
RequestURI(p) ==
    IF p = AwsPlatform THEN SharedURI
    ELSE ParseResult(Cut(LineGcpNamed, "=").after).v

\* What the cloud answers to a fetch of that address.
FetchOutcomes == {o \in Outcomes : o.client /\ o.secret \in StoredSecrets \cup {EmptyStr}}

\* A goroutine that has not called GetSecretValue yet.  cached tells whether
\* the cache held the secret when the goroutine looked it up, fetched whether
\* the cloud gave it a secret, value the raw secret it found or fetched.
NotCalled ==
    [at |-> "idle", platform |-> EmptyStr, cached |-> FALSE, fetched |-> FALSE,
     value |-> EmptyStr, returned |-> FALSE, result |-> Failure(NoError)]

InitResolve ==
    /\ NoUpdate
    /\ providers = CreateProviderMap
    /\ goroutines = [g \in Goroutines |-> NotCalled]
    /\ mux = [m \in {SecretCacheMux(p) : p \in Platforms}
                    \cup {ClientCacheMux(p) : p \in Platforms} |-> NewRWMutex]
    /\ call = NoCall

\* Goroutine g leaves GetSecretValue with the result r.
ReturnsValue(g, r) ==
    [goroutines[g] EXCEPT !.at = "returned", !.returned = TRUE, !.result = r]

\* A variant of GetSecretValueLookup that looks the secret up under the key
\* of the client cache.
GetSecretValueLookupByClientKey ==
    \E g \in Goroutines, p \in Platforms :
        LET held == GetCacheKey(RequestURI(p)) \in DOMAIN providers[p].secretCache
            Looked(cachedSecret) ==
                goroutines' = [goroutines EXCEPT ![g] =
                    IF cachedSecret.some
                    THEN [ReturnsValue(g, WrapKeyNotFound(
                              ParseValueResult(cachedSecret.v, RequestURI(p).Key)))
                          EXCEPT !.platform = p, !.cached = held,
                                 !.value = cachedSecret.v]
                    ELSE [@ EXCEPT !.at = "GetClient", !.platform = p,
                                   !.cached = held]]
        IN /\ goroutines[g].at = "idle"
           /\ CanRLock(mux[SecretCacheMux(p)])
           /\ Looked(GetCachedSecret(providers[p], ClientCacheKey(RequestURI(p))))
           /\ UNCHANGED <<providers, mux, call, updateVars>>

\* GetSecretValue: cachedSecret := p.GetCachedSecret(cacheKey), and the
\* return of the parsed value when the cache holds the secret.
GetSecretValueLookup ==
    \E g \in Goroutines, p \in Platforms :
        LET held == GetCacheKey(RequestURI(p)) \in DOMAIN providers[p].secretCache
            Looked(cachedSecret) ==
                goroutines' = [goroutines EXCEPT ![g] =
                    IF cachedSecret.some
                    THEN [ReturnsValue(g, WrapKeyNotFound(
                              ParseValueResult(cachedSecret.v, RequestURI(p).Key)))
                          EXCEPT !.platform = p, !.cached = held,
                                 !.value = cachedSecret.v]
                    ELSE [@ EXCEPT !.at = "GetClient", !.platform = p,
                                   !.cached = held]]
        IN /\ goroutines[g].at = "idle"
           /\ CanRLock(mux[SecretCacheMux(p)])
           /\ Looked(GetCachedSecret(providers[p], GetCacheKey(RequestURI(p))))
           /\ UNCHANGED <<providers, mux, call, updateVars>>

\* GetClient: cachedClientOpt := p.GetCachedClient(cacheKey)
GetClientLookup ==
    \E g \in Goroutines :
        LET p == goroutines[g].platform IN
        /\ goroutines[g].at = "GetClient"
        /\ CanRLock(mux[ClientCacheMux(p)])
        /\ goroutines' = [goroutines EXCEPT ![g].at =
               IF GetCachedClient(providers[p], ClientCacheKey(RequestURI(p)))
               THEN "FetchSecret" ELSE "CreateClient"]
        /\ UNCHANGED <<providers, mux, call, updateVars>>

\* GetClient: the creation of a client, which can fail.
GetClientCreate ==
    \E g \in Goroutines, created \in BOOLEAN :
        /\ goroutines[g].at = "CreateClient"
        /\ goroutines' = [goroutines EXCEPT ![g] =
               IF created THEN [@ EXCEPT !.at = "CacheClient"]
               ELSE ReturnsValue(g, Failure(<<"failed to get client", "AccessDenied">>))]
        /\ UNCHANGED <<providers, mux, call, updateVars>>

\* GetClient: p.CacheClient(cacheKey, client)
GetClientStore ==
    \E g \in Goroutines :
        LET p == goroutines[g].platform IN
        /\ goroutines[g].at = "CacheClient"
        /\ CanLock(mux[ClientCacheMux(p)])
        /\ providers' = [providers EXCEPT ![p] =
                            CacheClient(@, ClientCacheKey(RequestURI(p)))]
        /\ goroutines' = [goroutines EXCEPT ![g].at = "FetchSecret"]
        /\ UNCHANGED <<mux, call, updateVars>>

\* RetrieveSecret: the call of the cloud API with the client.
RetrieveSecretFetch ==
    \E g \in Goroutines, out \in FetchOutcomes :
        LET p == goroutines[g].platform
            Fetched(secretResult) ==
                goroutines' = [goroutines EXCEPT ![g] =
                    IF ~secretResult.ok
                    THEN ReturnsValue(g, Failure(<<"failed to retrieve secret">>
                                                   \o secretResult.err))
                    ELSE [@ EXCEPT !.at = "CacheSecret", !.fetched = TRUE,
                                   !.value = secretResult.v]]
        IN /\ goroutines[g].at = "FetchSecret"
           /\ Fetched(FetchSecret(RequestURI(p), out))
           /\ apiCalls' = Append(apiCalls,
                                 [platform |-> p,
                                  cacheKey |-> GetCacheKey(RequestURI(p)),
                                  ok |-> out.api = "ok",
                                  secret |-> out.secret,
                                  goroutine |-> g])
           /\ UNCHANGED <<pc, gitOutcome, inputFile, outFile, outFile0, noExpandJson,
                          inputRead, entries, idx, result, trace, failure>>
           /\ UNCHANGED <<providers, mux, call>>

\* GetSecretValue: p.CacheSecret(cacheKey, secretVal), and the return of the
\* parsed value.
GetSecretValueStore ==
    \E g \in Goroutines :
        LET p == goroutines[g].platform IN
        /\ goroutines[g].at = "CacheSecret"
        /\ CanLock(mux[SecretCacheMux(p)])
        /\ providers' = [providers EXCEPT ![p] =
                            CacheSecret(@, GetCacheKey(RequestURI(p)), goroutines[g].value)]
        /\ goroutines' = [goroutines EXCEPT ![g] =
               ReturnsValue(g, WrapKeyNotFound(
                   ParseValueResult(goroutines[g].value, RequestURI(p).Key)))]
        /\ UNCHANGED <<mux, call, updateVars>>

NextResolve ==
    \/ GetSecretValueLookup
    \/ GetClientLookup
    \/ GetClientCreate
    \/ GetClientStore
    \/ RetrieveSecretFetch
    \/ GetSecretValueStore

SpecResolve == InitResolve /\ [][NextResolve]_vars

(***************************************************************************)
(* Properties of a run of update.                                          *)
(***************************************************************************)
\* git check-ignore says that the cache file is ignored.
GitIgnored == gitOutcome.exit = 0 /\ gitOutcome.output

\* The fetch of entry t went to the cloud and failed: no client could be
\* had, or the API answered with an error or without a payload.
FetchFailed(t) ==
    /\ t.dispatched
    /\ ~t.cacheHit
    /\ \/ ~t.out.client /\ ~t.clientCached
       \/ t.out.api # "ok"

\* The fetch of entry t went to the cloud and brought back a secret.
FetchSucceeded(t) ==
    /\ t.dispatched
    /\ ~t.cacheHit
    /\ t.out.client \/ t.clientCached
    /\ t.out.api = "ok"

\* The run has failed at the entry at position i of the entry list, which
\* is the last one gone through.
AbortedAt(i) ==
    /\ pc = "failed"
    /\ failure.stage = "resolve"
    /\ failure.line = i
    /\ Len(trace) = i
    /\ idx = i - 1
    /\ trace[i].failed
    /\ ~trace[i].literal
    /\ trace[i].values = <<>>

\* C1: when the fetch of a registered backend fails for an entry, whatever
\* the cause, resolution fails at that entry: no literal is emitted for it
\* and no later entry is gone through.
C1_FetchFailureAborts ==
    \A i \in 1..Len(trace) : FetchFailed(trace[i]) => AbortedAt(i)

C1_Witness ==
    /\ pc = "failed"
    /\ Len(entries) = 2
    /\ Len(trace) = 1
    /\ FetchFailed(trace[1])
    /\ trace[1].out.api = "error"
    /\ trace[1].out.cause = "unsupported platform"

\* C2: a run that hits a hard error keeps none of the pairs accumulated
\* before the failure, and leaves the cache file as it was: not created,
\* not modified.
C2_NoOutputOnHardError ==
    (pc = "failed" /\ failure.stage \in {"read", "resolve"}) =>
        /\ result.Values = <<>>
        /\ result.Keys = <<>>
        /\ outFile = outFile0

C2_Witness ==
    /\ pc = "failed"
    /\ failure.stage = "resolve"
    /\ Len(trace) = 2
    /\ trace[1].values # <<>>
    /\ ~outFile0.exists

\* The value the last of the entries gone through that emitted k gave it.
LastEmitted(k) ==
    LET i == CHOOSE i \in 1..Len(trace) :
                 /\ k \in DOMAIN trace[i].values
                 /\ \A j \in (i + 1)..Len(trace) : k \notin DOMAIN trace[j].values
    IN trace[i].values[k]

\* C3: entries are resolved one at a time in file order into one map, and
\* a key emitted by several entries holds the value of the last of them.
C3_LastEntryWins ==
    /\ \A i, j \in 1..Len(entries) : i < j => entries[i].Index < entries[j].Index
    /\ \A i \in 1..Len(trace) : trace[i].index = entries[i].Index
    /\ pc \in {"resolving", "done"} =>
        /\ Len(trace) = idx
        /\ DOMAIN result.Values = UNION {DOMAIN trace[i].values : i \in 1..Len(trace)}
        /\ \A k \in DOMAIN result.Values : result.Values[k] = LastEmitted(k)

C3_Witness ==
    /\ pc = "done"
    /\ Len(trace) = 2
    /\ \E k \in DOMAIN trace[1].values \cap DOMAIN trace[2].values :
           /\ trace[1].values[k] # trace[2].values[k]
           /\ result.Values[k] = trace[2].values[k]

\* C4: update checks first that the cache file is ignored by git; when it
\* is not, or the check fails, the command ends with an error and has not
\* read the input, fetched a secret or touched the cache file.
C4_GitIgnoreFirst ==
    /\ ~GitIgnored =>
        /\ pc \in {"start", "failed"}
        /\ pc = "failed" => failure.stage = "git"
        /\ ~inputRead
        /\ entries = <<>>
        /\ trace = <<>>
        /\ apiCalls = <<>>
        /\ outFile = outFile0
    /\ pc = "start" => (~inputRead /\ apiCalls = <<>> /\ outFile = outFile0)

C4_Witness ==
    /\ pc = "failed"
    /\ failure.stage = "git"
    /\ gitOutcome.exit = 128
    /\ gitOutcome.output
    /\ inputFile.exists
    /\ inputFile.data = LineAwsNamed

\* C5: a backend looks a secret up in its cache by the cache key before any
\* fetch, and a miss fetches and inserts: an entry is served from the cache
\* exactly when an earlier entry had the same backend and cache key, an
\* entry served from the cache makes no call, and no backend is called
\* twice for one cache key.
C5_OneFetchPerCacheKey ==
    /\ \A i \in 1..Len(trace) :
        LET t == trace[i] IN
        t.dispatched =>
            /\ t.cacheHit <=> \E j \in 1..(i - 1) :
                                  /\ trace[j].dispatched
                                  /\ trace[j].platform = t.platform
                                  /\ trace[j].cacheKey = t.cacheKey
            /\ t.cacheHit => ~t.called
            /\ FetchSucceeded(t) => (t.called /\ t.hasRaw /\ t.raw = t.out.secret)
    /\ \A i, j \in 1..Len(apiCalls) :
        (apiCalls[i].platform = apiCalls[j].platform
         /\ apiCalls[i].cacheKey = apiCalls[j].cacheKey) => i = j

C5_Witness ==
    /\ Len(trace) = 2
    /\ trace[1].dispatched /\ trace[1].called
    /\ trace[2].dispatched /\ trace[2].cacheHit /\ ~trace[2].called
    /\ trace[1].key # trace[2].key
    /\ Len(apiCalls) = 1

\* C6: a secret inserted into the secret cache of a backend stays there
\* under its cache key with the value it was inserted with.
C6_CacheNeverChanges ==
    [][\A p \in DOMAIN providers : \A k \in DOMAIN providers[p].secretCache :
           /\ p \in DOMAIN providers'
           /\ k \in DOMAIN providers'[p].secretCache
           /\ providers'[p].secretCache[k] = providers[p].secretCache[k]]_vars

C6_Witness ==
    /\ pc = "done"
    /\ Len(trace) = 2
    /\ providers[AwsPlatform].secretCache # <<>>
    /\ providers[GoogleCloudPlatform].secretCache # <<>>

\* C7: an entry whose candidate text does not parse as a secret address
\* does not fail the run and contributes exactly {key: value}, which is
\* {key: ""} when the value is empty.
C7_LiteralAsIs ==
    \A i \in 1..Len(trace) :
        LET t == trace[i] IN
        ~t.parsed =>
            /\ ~t.failed
            /\ t.values = (t.key :> t.value)
            /\ idx >= i

\* C8: an entry whose address parses but names a platform without a
\* registered backend is a literal like a parse failure: no backend is
\* called, the run does not fail and the entry contributes {key: value}.
C8_UnregisteredPlatformIsLiteral ==
    \A i \in 1..Len(trace) :
        LET t == trace[i] IN
        (t.parsed /\ t.platform \notin Platforms) =>
            /\ ~t.dispatched
            /\ ~t.called
            /\ ~t.hasRaw
            /\ ~t.failed
            /\ t.literal
            /\ t.values = (t.key :> t.value)
            /\ idx >= i

C8_Witness ==
    /\ pc = "done"
    /\ Len(trace) = 2
    /\ trace[1].parsed
    /\ trace[1].platform = <<"g", "c", "p">>
    /\ trace[1].values = (<<"A">> :> trace[1].value)
    /\ apiCalls = <<>>

\* The secret of entry t is not JSON, or the key the address requests is
\* not found in it.
KeyUnavailable(t) ==
    LET jsonResult == ParseJSONResult(t.raw) IN
    \/ ~jsonResult.ok
    \/ ~NavigatePath(jsonResult.v, Split(t.uriKey, ".")).ok

\* C9: when an address requests a key and the secret is not valid JSON or
\* the key path is not found in it, resolution aborts at that entry and
\* nothing is emitted for it.
C9_KeyRequestedHardError ==
    \A i \in 1..Len(trace) :
        LET t == trace[i] IN
        (t.hasRaw /\ t.uriKey # EmptyStr /\ KeyUnavailable(t)) => AbortedAt(i)

C9_Witness ==
    /\ pc = "failed"
    /\ Len(trace) = 2
    /\ trace[2].cacheHit
    /\ trace[2].uriKey = <<"k">>
    /\ trace[2].raw = SecretText
    /\ trace[1].values # <<>>

\* C10 as stated: the only hard errors are a failed fetch and, with a key
\* requested, a secret that is not JSON or lacks the key; an entry whose
\* fetch succeeds and whose address requests no key does not abort the
\* run, whatever the secret, and contributes at least one variable.
C10_AnySecretWithoutKeyResolves ==
    \A i \in 1..Len(trace) :
        LET t == trace[i] IN
        /\ t.failed => \/ FetchFailed(t)
                       \/ t.hasRaw /\ t.uriKey # EmptyStr /\ KeyUnavailable(t)
        /\ (t.hasRaw /\ t.uriKey = EmptyStr) => (~t.failed /\ t.values # <<>>)

\* The variable a secret resolved as a scalar is emitted under: the export
\* name, else the requested key, else the secret name.
ScalarKey(t) ==
    IF t.key # EmptyStr /\ t.value # EmptyStr THEN t.key
    ELSE IF t.uriKey # EmptyStr THEN t.uriKey
    ELSE t.secretName

\* What ParseJSONMapResult makes of a fetched secret once its control
\* characters are removed; the secrets of the model are parsed once.
ObjectOfSecret == [s \in Secrets |-> ParseJSONMapResult(CleanControlChars(s))]

ParsedObject(raw) ==
    IF raw \in Secrets THEN ObjectOfSecret[raw]
    ELSE ParseJSONMapResult(CleanControlChars(raw))

\* The names of the variables a secret resolved as a JSON object is emitted
\* under: the member names, after the export name and "_" when there is one.
MemberKeys(t) ==
    LET members == DOMAIN ParsedObject(t.raw).v IN
    IF t.key # EmptyStr /\ t.value # EmptyStr
    THEN {t.key \o <<"_">> \o m : m \in members}
    ELSE members

\* C10, amended: the hard errors are a failed fetch, an empty secret and,
\* with a key requested, a secret that is not JSON or lacks the key.  An
\* entry whose fetch brought a non-empty secret and whose address requests
\* no key does not abort the run: it contributes one variable per member
\* when the secret is a JSON object and expansion is on (none for {}), and
\* otherwise the whole secret as exactly one variable.
C10_NonEmptySecretWithoutKeyResolves ==
    \A i \in 1..Len(trace) :
        LET t == trace[i] IN
        /\ t.failed => \/ FetchFailed(t)
                       \/ t.hasRaw /\ t.raw = EmptyStr
                       \/ t.hasRaw /\ t.uriKey # EmptyStr /\ KeyUnavailable(t)
        /\ (t.hasRaw /\ t.raw = EmptyStr) => AbortedAt(i)
        /\ (t.hasRaw /\ t.uriKey = EmptyStr /\ t.raw # EmptyStr) =>
            /\ ~t.failed
            /\ IF ParsedObject(t.raw).ok /\ ~noExpandJson
               THEN DOMAIN t.values = MemberKeys(t)
               ELSE t.values =
                        (ScalarKey(t) :> Trim(CleanControlChars(t.raw), {"'"}))

C10_Witness ==
    /\ pc = "failed"
    /\ Len(trace) = 2
    /\ trace[2].hasRaw
    /\ trace[2].raw = EmptyStr
    /\ trace[2].uriKey = EmptyStr
    /\ trace[2].out.api = "ok"
    /\ trace[2].platform = GoogleCloudPlatform

\* C11: a hard error of the resolution carries the number of the line of
\* the offending entry in the env file, blank and comment lines counted.
C11_ErrorLineIsFileLine ==
    (pc = "failed" /\ failure.stage = "resolve") =>
        failure.line = entries[idx + 1].Index

\* The non-empty lines of the cache file.
OutputLines ==
    SelectSeq(Split(outFile.content, "\n"), LAMBDA l : l # EmptyStr)

\* The variable name of a line of the cache file.
LineName(l) == Cut(l, "=").before

\* The value of a line of the cache file, without the quotes put around it.
LineValue(l) ==
    LET v == Cut(l, "=").after IN
    IF Len(v) >= 2 /\ v[1] = "'" /\ v[Len(v)] = "'"
    THEN SubSeq(v, 2, Len(v) - 1)
    ELSE v

\* The names of the variables in the cache file.
OutputNames == {LineName(OutputLines[j]) : j \in 1..Len(OutputLines)}

\* Entry number i is the last one that emitted the key k.
IsLastEmitter(i, k) ==
    /\ k \in DOMAIN trace[i].values
    /\ \A j \in (i + 1)..Len(trace) : k \notin DOMAIN trace[j].values

\* The lines the formatter of the cache file writes for what entry t alone
\* contributed.
ContributedLines(t) ==
    SelectSeq(Split(FormatEnvVarContent(t.values,
                                        [UseQuotes |-> TRUE, SortedKeys |-> <<>>,
                                         IncludeURIs |-> FALSE,
                                         NoExpandJson |-> noExpandJson]),
                    "\n"),
              LAMBDA l : l # EmptyStr)

\* C12: an entry whose address requests a key, and any secret resolved with
\* noExpandJson set, contributes exactly one variable to the cache file,
\* whatever the shape of the value.
C12_KeyOrNoExpandIsOneVariable ==
    \A i \in 1..Len(trace) :
        LET t == trace[i] IN
        (t.hasRaw /\ ~t.failed /\ (t.uriKey # EmptyStr \/ noExpandJson)) =>
            /\ Cardinality(DOMAIN t.values) = 1
            /\ Len(ContributedLines(t)) = 1

\* The text of what the key path of entry t leads to in its secret.
Extracted(t) ==
    formatSecretValue(NavigatePath(ParseJSONResult(t.raw).v, Split(t.uriKey, ".")).v)

\* C13: when a key is requested, the value emitted under the entry's
\* variable is the text of what the key path leads to in the secret; the
\* key path is not applied to that text again.
C13_KeyPathAppliedOnce ==
    \A i \in 1..Len(trace) :
        LET t == trace[i] IN
        (t.hasRaw /\ ~t.failed /\ t.uriKey # EmptyStr
         /\ ScalarKey(t) \in DOMAIN t.values) =>
            t.values[ScalarKey(t)] = Trim(Extracted(t), {"'"})

\* C14: no backend is asked for an incomplete address: an entry goes to a
\* backend or to the cloud only with a non-empty platform, service, account
\* and secret name, and an entry whose address lacks one of them is a
\* literal.
C14_OnlyCompleteAddressesDispatched ==
    \A i \in 1..Len(trace) :
        LET t == trace[i] IN
        /\ (t.parsed \/ t.dispatched \/ t.called \/ t.hasRaw) =>
              /\ t.platform # EmptyStr
              /\ t.service # EmptyStr
              /\ t.account # EmptyStr
              /\ t.secretName # EmptyStr
        /\ ~t.parsed => (~t.dispatched /\ ~t.called /\ ~t.hasRaw /\ t.literal)

C14_Witness ==
    /\ pc = "done"
    /\ Len(trace) = 2
    /\ trace[1].value =
         <<"s", "e", "m", ":", "/", "/", "a", "w", "s", ":", "s", "/", "a">>
    /\ ~trace[1].parsed
    /\ trace[2].dispatched
    /\ trace[2].called
    /\ apiCalls # <<>>

\* The name a member m has under the prefix p.
MemberName(p, m) == IF p = EmptyStr THEN m ELSE p \o <<"_">> \o m

\* The text of a JSON scalar.
ScalarText(v) ==
    IF v.t \in {"str", "num"} THEN v.s
    ELSE IF v.t = "bool" THEN (IF v.b THEN JTrue ELSE JFalse)
    ELSE JNullText

\* The flattening of the JSON value v under the name p: the pairs of the
\* name and the value of every scalar in it.
RECURSIVE FlattenJSON(_, _)
FlattenJSON(p, v) ==
    IF v.t = "obj"
    THEN UNION {FlattenJSON(MemberName(p, m), v.m[m]) : m \in DOMAIN v.m}
    ELSE IF v.t = "arr"
    THEN UNION {FlattenJSON(p \o <<"_">> \o Itoa(i - 1), v.a[i]) : i \in 1..Len(v.a)}
    ELSE {<<p, v>>}

\* Entry t brought a JSON object that is resolved with expansion.
IsExpanded(t) ==
    /\ t.hasRaw
    /\ ~t.failed
    /\ t.uriKey = EmptyStr
    /\ ~noExpandJson
    /\ ParsedObject(t.raw).ok

\* The object entry t brought, and the prefix its members are named under.
ExpandedObject(t) == JObj(ParsedObject(t.raw).v)

ExpandedPrefix(t) == IF t.key # EmptyStr /\ t.value # EmptyStr THEN t.key ELSE EmptyStr

\* The line seq has for a flattened pair: its name, and its text unless the
\* scalar is null.
HasLineFor(lines, pair) ==
    \E j \in 1..Len(lines) :
        /\ LineName(lines[j]) = pair[1]
        /\ pair[2].t # "null" => LineValue(lines[j]) = ScalarText(pair[2])

C18_AddressKeysNotWritten ==
    /\ pc = "done" =>
         \A j \in 1..Len(OutputLines) : ~HasPrefix(OutputLines[j], URIPrefix)
    /\ \A i \in 1..Len(trace) :
         LET t == trace[i] IN
         (t.value = EmptyStr /\ IsExpanded(t)) =>
             /\ DOMAIN t.values = DOMAIN ExpandedObject(t).m
             /\ \A k \in DOMAIN t.values : ~HasPrefix(k, URIPrefix)
             /\ pc = "done" =>
                  \A m \in DOMAIN ExpandedObject(t).m :
                      IsLastEmitter(i, m) =>
                          \A pair \in FlattenJSON(m, ExpandedObject(t).m[m]) :
                              HasLineFor(OutputLines, pair)

C18_Witness ==
    /\ pc = "done"
    /\ Len(trace) = 2
    /\ HasPrefix(trace[1].key, URIPrefix)
    /\ trace[1].key \in DOMAIN result.Values
    /\ IsExpanded(trace[2])
    /\ trace[2].value = EmptyStr
    /\ trace[2].raw = SecretObject
    /\ OutputNames = {<<"k">>}

\* C20: a direct assignment KEY=VALUE whose value is not a secret address
\* is in the cache file as exactly one line, with the name KEY and the
\* value VALUE, unless a later entry gave KEY another value.
C20_DirectAssignmentPreserved ==
    pc = "done" =>
        \A i \in 1..Len(trace) :
            LET t == trace[i] IN
            (~t.parsed /\ t.key # EmptyStr /\ t.value # EmptyStr
             /\ IsLastEmitter(i, t.key)) =>
                /\ Cardinality({j \in 1..Len(OutputLines) :
                                   LineName(OutputLines[j]) = t.key}) = 1
                /\ \A j \in 1..Len(OutputLines) :
                       LineName(OutputLines[j]) = t.key =>
                           LineValue(OutputLines[j]) = t.value

\* The cache a goroutine is inside, as <<platform, cache>>, and whether it writes it.
Accessing(g) ==
    CASE goroutines[g].at \in {"GetCachedSecret", "CacheSecret"} ->
             <<goroutines[g].platform, "secretCache">>
      [] goroutines[g].at \in {"GetCachedClient", "CacheClient"} ->
             <<goroutines[g].platform, "clientCache">>
      [] OTHER -> <<>>

Writing(g) == goroutines[g].at \in {"CacheSecret", "CacheClient"}

\* C15: a goroutine that writes a cache of a backend is the only goroutine inside
\* that cache: no other goroutine reads or writes the same cache at that moment
\* (reads of one cache, and accesses of different caches, may overlap).
C15_WriteNeverOverlaps ==
    \A g1 \in DOMAIN goroutines, g2 \in DOMAIN goroutines :
        (g1 # g2 /\ Writing(g1) /\ Accessing(g2) # <<>>)
            => Accessing(g1) # Accessing(g2)

\* Two goroutines read the same secret cache at the same moment.
C15_Witness ==
    /\ DOMAIN goroutines = Goroutines
    /\ \E g1 \in Goroutines, g2 \in Goroutines :
          /\ g1 # g2
          /\ goroutines[g1].at = "GetCachedSecret"
          /\ goroutines[g2].at = "GetCachedSecret"
          /\ goroutines[g1].platform = goroutines[g2].platform
          /\ mux[SecretCacheMux(goroutines[g1].platform)].readers = {g1, g2}


\* The call of the formatter has returned.
Returned(fn) == call.fn = fn /\ call.returned

\* The non-empty lines FormatEnvVarContent returned.
FormattedLines == SelectSeq(Split(call.result, "\n"), LAMBDA l : l # EmptyStr)

\* C17: whatever order of keys the caller prefers, the names of the lines that
\* FormatEnvVarContent returns are in lexicographic order from top to bottom, and
\* the text is the one the same map gives without a preferred order.
C17_OutputNamesSorted ==
    Returned("FormatEnvVarContent") =>
        /\ \A i \in 1..Len(FormattedLines), j \in 1..Len(FormattedLines) :
              i < j => ~LessStr(LineName(FormattedLines[j]), LineName(FormattedLines[i]))
        /\ call.result =
              FormatEnvVarContent(call.values,
                                  [call.options EXCEPT !.SortedKeys = <<>>])

\* The export line for a value: in single quotes, each single quote of the value
\* written as '\''.
ExportForm(key, value) ==
    <<"e", "x", "p", "o", "r", "t", " ">> \o key \o <<"=", "'">>
        \o Join(Split(value, "'"), <<"'", "\\", "'", "'">>) \o <<"'">>

\* C19: with useExport and a key, FormatLineResult returns export key='...' with
\* every single quote of the value written as '\'', whatever useQuotes is.  A value
\* that comes wrapped in a pair of single quotes may also be taken as the text
\* between them.
C19_ExportFormEscapes ==
    (Returned("FormatLineResult") /\ call.useExport /\ call.key # EmptyStr) =>
        /\ call.result.ok
        /\ \/ call.result.v = ExportForm(call.key, call.value)
           \/ /\ Len(call.value) >= 2
              /\ HasSingleQuotes(call.value)
              /\ call.result.v =
                    ExportForm(call.key, SubSeq(call.value, 2, Len(call.value) - 1))

\* C21: no entry of the list ParsePlainFileContent returns, which update hands
\* to the resolver as it is, has both an empty key and an empty value.
C21_NoEmptyEntryReachesResolver ==
    Returned("ParsePlainFileContent") =>
        \A i \in 1..Len(call.result) :
            ~(call.result[i].Key = EmptyStr /\ call.result[i].Value = EmptyStr)

\* The line of the env file an entry was parsed from.
LineOfEntry(e) == ScanLines(PreprocessContent(call.content))[e.Index]

\* The line is classified KeyValue.
IsKeyValueLine(line) == classifyLine(TrimSpace(line)) = "KeyValueLine"

\* C22, as claimed: the value of the entry of a KeyValue line is everything
\* after the first "=" of the line, trailing spaces included.
C22_ValueVerbatim ==
    Returned("ParsePlainFileContent") =>
        \A i \in 1..Len(call.result) :
            IsKeyValueLine(LineOfEntry(call.result[i])) =>
                call.result[i].Value = Cut(LineOfEntry(call.result[i]), "=").after

\* C22, amended: the line is split at its first "=" after the white space
\* around the line is removed.  The value is everything from that "=" to the
\* end of the trimmed line, with further "=", leading spaces and quotes as
\* they are; white space at the end of the line is not part of the value.
C22_ValueVerbatimInTrimmedLine ==
    Returned("ParsePlainFileContent") =>
        \A i \in 1..Len(call.result) :
            IsKeyValueLine(LineOfEntry(call.result[i])) =>
                /\ call.result[i].Value =
                      Cut(TrimSpace(LineOfEntry(call.result[i])), "=").after
                /\ ~Contains(call.result[i].Key, "=")

\* A KeyValue line that ends with a space gave a value that starts with one.
C22_Witness ==
    /\ Returned("ParsePlainFileContent")
    /\ \E i \in 1..Len(call.result) :
          /\ IsKeyValueLine(LineOfEntry(call.result[i]))
          /\ LineOfEntry(call.result[i])[Len(LineOfEntry(call.result[i]))] = " "
          /\ call.result[i].Value # EmptyStr
          /\ call.result[i].Value[1] = " "

\* C23: the parsed address keeps a version and a region that are given; without
\* a version it has AWSCURRENT for aws, latest for googlecloud and none for any
\* other platform; without a region it has the default region for aws and none
\* for every other platform.
C23_VersionAndRegionDefaults ==
    Returned("ParseResult") =>
        /\ call.result.ok
        /\ call.result.v.Platform = call.platform
        /\ call.result.v.Version =
              (IF call.version # EmptyStr THEN call.version
               ELSE IF call.platform = <<"a", "w", "s">>
               THEN <<"A", "W", "S", "C", "U", "R", "R", "E", "N", "T">>
               ELSE IF call.platform = <<"g", "o", "o", "g", "l", "e", "c", "l", "o", "u", "d">>
               THEN <<"l", "a", "t", "e", "s", "t">>
               ELSE EmptyStr)
        /\ call.result.v.Region =
              (IF call.region # EmptyStr THEN call.region
               ELSE IF call.platform = <<"a", "w", "s">>
               THEN <<"a", "p", "-", "n", "o", "r", "t", "h", "e", "a", "s", "t", "-", "1">>
               ELSE EmptyStr)

\* A Google Cloud address without version and region was parsed.
C23_Witness ==
    /\ Returned("ParseResult")
    /\ call.platform = GoogleCloudPlatform
    /\ call.version = EmptyStr
    /\ call.region = EmptyStr
    /\ call.result.ok
    /\ call.result.v.Version = GoogleCloudDefaultVersion
    /\ call.result.v.Region = EmptyStr

\* The text of the entry that is tried as a secret address.
AddressCandidate(t) == IF t.value # EmptyStr THEN t.value ELSE t.key

\* C24: an entry whose address has the platform gcp is dispatched to the Google
\* Cloud backend, with the version latest when the address gives none.
C24_GcpIsGoogleCloud ==
    \A i \in 1..Len(trace) :
        (trace[i].parsed /\ trace[i].platform = <<"g", "c", "p">>) =>
            /\ trace[i].dispatched
            /\ ParseResult(AddressCandidate(trace[i])).v.Version = GoogleCloudDefaultVersion

\* C25: with expansion on, every null in a JSON secret, the top-level members
\* included, is written with the text null as its value.
C25_NullLeafIsNull ==
    (trace # <<>> /\ IsExpanded(trace[Len(trace)])) =>
        LET t == trace[Len(trace)]
            lines == ContributedLines(t)
        IN \A pair \in FlattenJSON(ExpandedPrefix(t), ExpandedObject(t)) :
               pair[2].t = "null" =>
                   \E j \in 1..Len(lines) :
                       /\ LineName(lines[j]) = pair[1]
                       /\ LineValue(lines[j]) = JNullText

\* The value without one pair of matching quotes around it.
WithoutOnePair(v) ==
    IF Len(v) >= 2 /\ v[1] = v[Len(v)] /\ v[1] \in {"'", "\""}
    THEN SubSeq(v, 2, Len(v) - 1)
    ELSE v

\* C26: a secret that is resolved as one variable, no key requested, is written
\* with exactly one pair of matching quotes around it removed: quotes further
\* inside are kept, and a value without such a pair is written as it is.
C26_OneLayerOfQuotesRemoved ==
    (trace # <<>>
       /\ trace[Len(trace)].hasRaw
       /\ ~trace[Len(trace)].failed
       /\ trace[Len(trace)].uriKey = EmptyStr
       /\ ~ParsedObject(trace[Len(trace)].raw).ok) =>
        LET lines == ContributedLines(trace[Len(trace)]) IN
        /\ Len(lines) = 1
        /\ LineValue(lines[1]) =
              WithoutOnePair(CleanControlChars(trace[Len(trace)].raw))

\* The text is a number written in digits.
IsDigits(d) == d # EmptyStr /\ \A i \in 1..Len(d) : d[i] \in Digits

\* The call of NavigatePath selected the element with the 0-based index n.
Selected(n) == call.result.ok /\ call.result.v = JNum(Itoa(n))

\* C27: in an array of length L the segment "-" selects the last element, "-N"
\* selects element L-N exactly when 0 < N <= L and fails otherwise, and N selects
\* element N exactly when N < L and fails otherwise.
C27_ArrayIndex ==
    Returned("NavigatePath") =>
        LET L == call.length
            seg == call.segment
        IN /\ (seg = <<"-">> /\ L > 0) => Selected(L - 1)
           /\ (Len(seg) >= 2 /\ seg[1] = "-" /\ IsDigits(Tail(seg))) =>
                 IF 0 < DigitsValue(Tail(seg)) /\ DigitsValue(Tail(seg)) <= L
                 THEN Selected(L - DigitsValue(Tail(seg)))
                 ELSE ~call.result.ok
           /\ IsDigits(seg) =>
                 IF DigitsValue(seg) < L THEN Selected(DigitsValue(seg))
                 ELSE ~call.result.ok

\* The segment -2 selected the first element of an array of length 2.
C27_Witness ==
    /\ Returned("NavigatePath")
    /\ call.length = 2
    /\ call.segment = <<"-", "2">>
    /\ call.result.ok
    /\ call.result.v = JNum(<<"0">>)

\* What resolving the entry of record t gives when no cache holds anything and
\* the cloud answers with the raw secret of t.
FreshlyResolved(t, i) ==
    ProcessEntryResultWithOptions(i - 1, NewEntry(t.index, t.key, t.value),
                                  CreateProviderMap, noExpandJson,
                                  [client |-> TRUE, api |-> "ok",
                                   cause |-> "AccessDenied", secret |-> t.raw])

\* C28: an entry served from the cache is resolved as it would be from a fresh
\* fetch of the same raw secret, without a call of the cloud; and an entry
\* whose secret an earlier entry of the same backend fetched under the same
\* cache key is served from the cache, whatever key the two request.
C28_CacheHitSameAsFetch ==
    trace # <<>> =>
        LET t == trace[Len(trace)]
            Same(fresh) ==
                /\ ~t.called
                /\ fresh.called
                /\ t.values = fresh.values
                /\ t.failed = (fresh.error # NoError)
                /\ t.failed => failure.err = fresh.error
        IN /\ t.cacheHit => Same(FreshlyResolved(t, Len(trace)))
           /\ \A j \in 1..(Len(trace) - 1) :
                 (/\ trace[j].hasRaw
                  /\ t.dispatched
                  /\ t.platform = trace[j].platform
                  /\ t.cacheKey = trace[j].cacheKey) =>
                     t.cacheHit /\ t.raw = trace[j].raw

\* Two entries that differ only in the key they request share one fetch, and
\* each receives the member of the secret its own key names.
C28_Witness ==
    /\ pc = "done"
    /\ ~noExpandJson
    /\ Len(trace) = 2
    /\ trace[1].value = Cut(LineAwsNamed, "=").after
    /\ trace[2].value = Cut(LineAwsNamedKey, "=").after
    /\ trace[1].raw = SecretObject
    /\ trace[1].called /\ ~trace[2].called /\ trace[2].cacheHit
    /\ trace[1].values = (<<"A", "_", "k">> :> <<"v">>)
    /\ trace[2].values = (<<"A">> :> <<"v">>)
    /\ Len(apiCalls) = 1

\* The successful fetches of the address on backend p.
FetchesOf(p) ==
    {i \in DOMAIN apiCalls : apiCalls[i].platform = p /\ apiCalls[i].ok}

\* The goroutines to which GetSecretValue of backend p returned a secret.
ServedBy(p) ==
    {g \in Goroutines : /\ goroutines[g].returned
                        /\ goroutines[g].platform = p
                        /\ goroutines[g].cached \/ goroutines[g].fetched}

\* C29: when several goroutines resolve one address on one backend, the
\* backend fetches the secret at most once and every goroutine receives the
\* same raw secret.
C29_FetchedAtMostOnce ==
    \A p \in Platforms :
        /\ Cardinality(FetchesOf(p)) <= 1
        /\ \A g, h \in ServedBy(p) : goroutines[g].value = goroutines[h].value

\* C29 as amended: a goroutine fetches the secret at most once, and only when
\* its lookup found the cache without it; no fetch is made once the cache
\* holds the secret at the lookup; a goroutine receives the raw secret it
\* fetched itself, or the one another goroutine fetched and stored before
\* its lookup.
C29_FetchedOncePerMiss ==
    \A p \in Platforms :
        /\ \A i, j \in FetchesOf(p) :
               apiCalls[i].goroutine = apiCalls[j].goroutine => i = j
        /\ \A g \in Goroutines :
               (goroutines[g].platform = p /\ goroutines[g].cached) =>
                   /\ ~goroutines[g].fetched
                   /\ \A i \in DOMAIN apiCalls : apiCalls[i].goroutine # g
        /\ \A g \in ServedBy(p) :
               \E i \in FetchesOf(p) :
                   /\ apiCalls[i].secret = goroutines[g].value
                   /\ goroutines[g].fetched = (apiCalls[i].goroutine = g)

\* Two goroutines have resolved the address on one backend at the same time:
\* both fetched, and they received different raw secrets.
C29_Witness ==
    \E p \in Platforms :
        /\ ServedBy(p) = Goroutines
        /\ Cardinality(FetchesOf(p)) = NumGoroutines
        /\ \E g, h \in Goroutines : goroutines[g].value # goroutines[h].value

\* C30: the text FormatEnvVarContent returns has no two lines with the same
\* variable name, whether a name is a key of the map or comes from the
\* expansion of a JSON value (for a preferred order that names no key twice).
C30_NoDuplicateNames ==
    (/\ Returned("FormatEnvVarContent")
     /\ \A i, j \in DOMAIN call.options.SortedKeys :
            call.options.SortedKeys[i] = call.options.SortedKeys[j] => i = j) =>
        \A i, j \in 1..Len(FormattedLines) :
            LineName(FormattedLines[i]) = LineName(FormattedLines[j]) => i = j

====
